---- MODULE Spec2Model ----
(***************************************************************************)
(* Validation engine of the instrument-assembly validator.                 *)
(*                                                                         *)
(* A run takes a dataset (a pandas DataFrame) and a VariableCategorization *)
(* and produces a ValidationReport.  Two orchestrators exist in the        *)
(* repository and both are modelled:                                       *)
(*   - EnsamblajeValidator.generate_comprehensive_report                   *)
(*       (tools/ensamblaje_tool/validator.py), five checkers;              *)
(*   - ValidationEngine.validate_duplicates                                *)
(*       (services/validation_engine.py), the older duplicate checker.     *)
(*                                                                         *)
(* Conventions.  A DataFrame is a record [index, rows]: index is the       *)
(* sequence of row labels, rows the sequence of row records.  Cells are    *)
(* strings or NULL (pandas NaN/None).  Dicts whose iteration order matters *)
(* are sequences in insertion order.  Percentages are kept as integers:    *)
(* tenths of a percent for round(x, 1), hundredths for round(x, 2).        *)
(***************************************************************************)
EXTENDS Integers, Sequences, FiniteSets, TLC

\* ------------------------------------------------------------------ bounds
\* largest number of rows of a dataset
MaxRows == 3

\* ------------------------------------------------------------------ values
\* a missing cell (NaN / None)
NULL == "<NA>"
\* an entry of a variable list that is not hashable (a JSON list where a
\* column name is expected): `var in data.columns` raises TypeError on it
UNHASHABLE == "<list>"
\* Optional values are sets of at most one element: None is the empty set
NONE == {}
Some(x) == {x}
Get(o) == CHOOSE x \in o : TRUE

\* the columns of the dataset (data.columns)
Columns == {"form", "year", "id", "key", "dim"}

\* the cells that hold a number rather than a string (a column pandas read
\* as int64), written with a leading '#', and what str() renders them as
NumericCells == ("#1" :> "1") @@ ("#2" :> "2")

\* str(value) of a cell: NaN renders as "nan", a number as its digits, a
\* string as itself
Str(v) ==
    IF v = NULL THEN "nan"
    ELSE IF v \in DOMAIN NumericCells THEN NumericCells[v]
    ELSE v

\* Python's order on the variable names used here (sorted() on strings)
NameOrder == <<"dim", "form", "ghost", "id", "key", "year">>

\* ------------------------------------------------------------ sequences
Range(s) == {s[i] : i \in 1..Len(s)}

RECURSIVE SeqSum(_)
SeqSum(s) == IF s = <<>> THEN 0 ELSE Head(s) + SeqSum(Tail(s))

RECURSIVE SumOver(_, _)
\* the sum of f[x] over the finite set S
SumOver(f, S) ==
    IF S = {} THEN 0
    ELSE LET x == CHOOSE y \in S : TRUE IN f[x] + SumOver(f, S \ {x})

RECURSIVE Concat(_)
Concat(ss) == IF ss = <<>> THEN <<>> ELSE Head(ss) \o Concat(Tail(ss))

RECURSIVE SelectSeqBy(_, _)
\* the subsequence of s whose elements are in S
SelectSeqBy(s, S) ==
    IF s = <<>> THEN <<>>
    ELSE IF Head(s) \in S THEN <<Head(s)>> \o SelectSeqBy(Tail(s), S)
    ELSE SelectSeqBy(Tail(s), S)

RECURSIVE Dedup(_)
\* the keys of a dict filled by assigning s[1], s[2], ... in turn
Dedup(s) ==
    IF s = <<>> THEN <<>>
    ELSE LET d == Dedup(SubSeq(s, 1, Len(s) - 1))
         IN IF s[Len(s)] \in Range(d) THEN d ELSE Append(d, s[Len(s)])

RECURSIVE StableSortBy(_, _)
\* list.sort(key=lambda x: x[k]) on a list of tuples: ascending and stable
StableSortBy(pairs, k) ==
    IF pairs = <<>> THEN <<>>
    ELSE LET init == StableSortBy(SubSeq(pairs, 1, Len(pairs) - 1), k)
             x == pairs[Len(pairs)]
             cut == Cardinality({j \in 1..Len(init) : init[j][k] <= x[k]})
         IN SubSeq(init, 1, cut) \o <<x>> \o SubSeq(init, cut + 1, Len(init))

RECURSIVE Join(_, _)
\* sep.join(parts)
Join(parts, sep) ==
    IF parts = <<>> THEN ""
    ELSE IF Len(parts) = 1 THEN parts[1]
    ELSE parts[1] \o sep \o Join(Tail(parts), sep)

\* ------------------------------------------------------------ DataFrames
\* pd.DataFrame(rows): a fresh RangeIndex 0..k-1
DataFrame(rows) == [index |-> [i \in 1..Len(rows) |-> i - 1], rows |-> rows]

\* len(frame)
FrameLen(frame) == Len(frame.rows)

\* frame[var].isnull(): the positions (1-based) of the null cells
NullPositions(frame, var) ==
    {i \in 1..Len(frame.rows) : frame.rows[i][var] = NULL}

\* frame[var].dropna(): the non-null cells, as a set of values
NonNullValues(frame, var) ==
    {frame.rows[i][var] : i \in (1..Len(frame.rows)) \ NullPositions(frame, var)}

\* frame[var].dropna().value_counts()[value]
ValueCount(frame, var, value) ==
    Cardinality({i \in 1..Len(frame.rows) : frame.rows[i][var] = value})

\* ------------------------------------------------------------- grouping
\* instrument_values: the dict {var: str(row[var])} over the instrument
\* variables that are columns, as its keys in insertion order
InstrumentValueKeys(instrument_vars) ==
    Dedup(SelectSeqBy(instrument_vars, Columns))

\* a variant of SortedItems that keeps the insertion order of the dict
InsertionOrderItems(keys) == keys

\* sorted(instrument_values.items()): the keys are distinct, so the pairs
\* are ordered by variable name
SortedItems(keys) == SelectSeqBy(NameOrder, Range(keys))

\* '|'.join(f"{k}:{v}" for k, v in sorted(instrument_values.items()))
InstrumentKey(row, instrument_vars) ==
    LET ks == SortedItems(InstrumentValueKeys(instrument_vars))
    IN Join([i \in 1..Len(ks) |-> ks[i] \o ":" \o Str(row[ks[i]])], "|")

\* `var in data.columns` raises TypeError for an unhashable var; the row loop
\* reaches it on the first row
GroupingRaises(frame, instrument_vars) ==
    /\ FrameLen(frame) > 0
    /\ UNHASHABLE \in Range(instrument_vars)

\* the message of the TypeError
UnhashableMessage == "unhashable type: 'list'"

RECURSIVE GroupPositionsLastRow(_, _, _)
\* a variant of GroupPositions that assigns the list of a known key instead
\* of appending to it
GroupPositionsLastRow(frame, instrument_vars, n) ==
    IF n = 0 THEN <<>>
    ELSE LET acc == GroupPositionsLastRow(frame, instrument_vars, n - 1)
             k == InstrumentKey(frame.rows[n], instrument_vars)
             hit == {j \in 1..Len(acc) : acc[j].key = k}
         IN IF hit = {}
            THEN Append(acc, [key |-> k, positions |-> <<n>>])
            ELSE [j \in 1..Len(acc) |->
                    IF j \in hit
                    THEN [acc[j] EXCEPT !.positions = <<n>>]
                    ELSE acc[j]]

RECURSIVE GroupPositions(_, _, _)
\* the row loop of the groupers: an ordered map key -> positions of the rows,
\* keys in order of first appearance; n rows have been consumed
GroupPositions(frame, instrument_vars, n) ==
    IF n = 0 THEN <<>>
    ELSE LET acc == GroupPositions(frame, instrument_vars, n - 1)
             k == InstrumentKey(frame.rows[n], instrument_vars)
             hit == {j \in 1..Len(acc) : acc[j].key = k}
         IN IF hit = {}
            THEN Append(acc, [key |-> k, positions |-> <<n>>])
            ELSE [j \in 1..Len(acc) |->
                    IF j \in hit
                    THEN [acc[j] EXCEPT !.positions = Append(@, n)]
                    ELSE acc[j]]

\* the sentinel key of the single instrument
SINGLE_INSTRUMENT_KEY == "default_instrument"
SINGLE_INSTRUMENT_DISPLAY == "Toda la base de datos"

\* a variant of GetInstruments that yields no instrument for a dataset
\* without rows, whatever the instrument variables
GetInstrumentsOfRows(frame, instrument_vars) ==
    IF instrument_vars = <<>> /\ FrameLen(frame) > 0
    THEN <<[key |-> SINGLE_INSTRUMENT_KEY, frame |-> frame]>>
    ELSE LET g == GroupPositions(frame, instrument_vars, FrameLen(frame))
         IN [j \in 1..Len(g) |->
               [key |-> g[j].key,
                frame |-> DataFrame([i \in 1..Len(g[j].positions) |->
                                       frame.rows[g[j].positions[i]]])]]

\* _get_instruments(data, categorization): an ordered map key -> DataFrame.
\* Without instrument variables the one frame is data itself (original
\* labels); otherwise every group is rebuilt by pd.DataFrame(rows), whose
\* labels restart at 0.  Defined when GroupingRaises is false.
GetInstruments(frame, instrument_vars) ==
    IF instrument_vars = <<>>
    THEN <<[key |-> SINGLE_INSTRUMENT_KEY, frame |-> frame]>>
    ELSE LET g == GroupPositions(frame, instrument_vars, FrameLen(frame))
         IN [j \in 1..Len(g) |->
               [key |-> g[j].key,
                frame |-> DataFrame([i \in 1..Len(g[j].positions) |->
                                       frame.rows[g[j].positions[i]]])]]

\* ValidationResult.add_error: an issue, and is_valid drops on severity error
AddError(result, code, message, severity) ==
    [result EXCEPT
       !.errors = Append(@, [code |-> code, message |-> message,
                             severity |-> severity]),
       !.is_valid = IF severity = "error" THEN FALSE ELSE @]

\* a variant of add_warning that records the warning as an error
AddWarningAsError(result, code, message) == AddError(result, code, message, "error")

\* ValidationResult.add_warning
AddWarning(result, code, message) ==
    [result EXCEPT !.warnings = Append(@, [code |-> code, message |-> message])]

\* ------------------------------------------------- instrument identification
\* InstrumentValidationResult(is_valid=True)
NewInstrumentResult ==
    [is_valid |-> TRUE, errors |-> <<>>, warnings |-> <<>>,
     instrument_summary |-> {}, instruments_detail |-> <<>>]

\* the variable names containing one of the temporal keywords
\* 'año', 'year', 'fecha', 'date', 'periodo', 'tanda'
TemporalNames == {"year"}

\* data[var].nunique(): distinct non-null values of the column
NUnique(frame, var) == Cardinality(NonNullValues(frame, var))

\* list.sort(key=cardinality): stable, ascending; pairs are <<var, cardinality>>
SortByCardinality(pairs) == StableSortBy(pairs, 2)

\* _calculate_variable_hierarchy raises on an unhashable variable once it
\* tests the variables against the columns
HierarchyRaises(instrument_vars) ==
    Len(instrument_vars) > 1 /\ UNHASHABLE \in Range(instrument_vars)

\* _calculate_variable_hierarchy(data, instrument_vars)
CalculateVariableHierarchy(frame, instrument_vars) ==
    IF Len(instrument_vars) <= 1 THEN instrument_vars
    ELSE LET present == SelectSeqBy(instrument_vars, Columns)
             sorted == SortByCardinality(
                 [i \in 1..Len(present) |-> <<present[i], NUnique(frame, present[i])>>])
         IN [i \in 1..Len(sorted) |-> sorted[i][1]]

\* _create_instrument_display_name(instrument_values, hierarchy);
\* keys are the keys of instrument_values in insertion order
CreateInstrumentDisplayName(row, keys, hierarchy) ==
    IF keys = <<>> THEN "Instrumento sin identificar"
    ELSE IF Len(keys) = 1 THEN Str(row[keys[1]])
    ELSE LET ordered_vars == SelectSeqBy(IF hierarchy # <<>> THEN hierarchy ELSE keys,
                                         Range(keys))
             plain == SelectSeqBy(ordered_vars, Range(ordered_vars) \ TemporalNames)
             temporal == SelectSeqBy(ordered_vars, TemporalNames)
             parts == [i \in 1..Len(plain) |-> Str(row[plain[i]])]
             temporal_parts == [i \in 1..Len(temporal) |-> Str(row[temporal[i]])]
             display_name == Join(parts, " - ")
         IN IF temporal_parts # <<>>
            THEN display_name \o " (" \o Join(temporal_parts, ", ") \o ")"
            ELSE display_name

\* the entries of instruments_data for the grouping g: per key the display
\* name of its first row, that row's instrument_values and the labels of its
\* rows (observations)
InstrumentsDataOf(frame, g, keys, hierarchy) ==
    [j \in 1..Len(g) |->
       [key |-> g[j].key,
        display_name |->
            CreateInstrumentDisplayName(frame.rows[g[j].positions[1]], keys, hierarchy),
        instrument_values |->
            [i \in 1..Len(keys) |->
               <<keys[i], Str(frame.rows[g[j].positions[1]][keys[i]])>>],
        observations |-> [i \in 1..Len(g[j].positions) |->
                            frame.index[g[j].positions[i]]]]]

\* the local instruments_data of validate_instruments_identification
InstrumentsData(frame, instrument_vars) ==
    InstrumentsDataOf(frame,
                      GroupPositions(frame, instrument_vars, FrameLen(frame)),
                      InstrumentValueKeys(instrument_vars),
                      CalculateVariableHierarchy(frame, instrument_vars))

\* the result built from instruments_data: summary and per-instrument detail
InstrumentResultOf(d, total_observations) ==
    [NewInstrumentResult EXCEPT
       !.instrument_summary = [total_instruments |-> Len(d),
                               total_observations |-> total_observations],
       !.instruments_detail =
           [j \in 1..Len(d) |->
              [key |-> d[j].key,
               display_name |-> d[j].display_name,
               observations_count |-> Len(d[j].observations),
               instrument_variables |-> d[j].instrument_values]]]

\* validate_instruments_identification(data, categorization)
ValidateInstrumentsIdentification(frame, cat) ==
    IF cat.instrument_vars = <<>>
    THEN [NewInstrumentResult EXCEPT
            !.instrument_summary = [total_instruments |-> 1,
                                    total_observations |-> FrameLen(frame)],
            !.instruments_detail =
                <<[key |-> SINGLE_INSTRUMENT_KEY,
                   display_name |-> SINGLE_INSTRUMENT_DISPLAY,
                   observations_count |-> FrameLen(frame),
                   instrument_variables |-> <<>>]>>]
    ELSE IF HierarchyRaises(cat.instrument_vars)
            \/ GroupingRaises(frame, cat.instrument_vars)
    THEN AddError(NewInstrumentResult, "INSTRUMENT_ANALYSIS_ERROR",
                  "Error durante analisis de identificadores de instrumentos: "
                      \o UnhashableMessage, "error")
    ELSE InstrumentResultOf(InstrumentsData(frame, cat.instrument_vars),
                            FrameLen(frame))

\* ------------------------------------------------------------- rounding
\* round(num / den) to the nearest integer, ties to even (Python's round),
\* for num >= 0 and den > 0
RoundDiv(num, den) ==
    LET q == num \div den
        r == num % den
    IN IF 2 * r < den THEN q
       ELSE IF 2 * r > den THEN q + 1
       ELSE IF q % 2 = 0 THEN q ELSE q + 1

\* a variant of PercentTenths that drops the digits after the first decimal
PercentTenthsTruncated(part, total) ==
    IF total > 0 THEN (part * 1000) \div total ELSE 0

\* round((part / total) * 100, 1) if total > 0 else 0, in tenths of a percent
PercentTenths(part, total) ==
    IF total > 0 THEN RoundDiv(part * 1000, total) ELSE 0

\* ------------------------------------------------- duplicates (common check)
\* DuplicateValidationResult(is_valid=True)
NewDuplicateResult ==
    [is_valid |-> TRUE, errors |-> <<>>, warnings |-> <<>>, statistics |-> {},
     duplicate_items |-> <<>>, instruments_analyzed |-> 0,
     total_items_checked |-> 0]

\* a variant of DuplicatedValues with the threshold one too high
DuplicatedValuesAboveTwo(frame, var) ==
    {v \in NonNullValues(frame, var) : ValueCount(frame, var, v) > 2}

\* the values that value_counts() reports with a count above 1
DuplicatedValues(frame, var) ==
    {v \in NonNullValues(frame, var) : ValueCount(frame, var, v) > 1}

\* the dict _analyze_id_variable_by_instrument returns, from the non-null
\* values, the values counted more than once and the number of nulls;
\* repeated_details is kept as a set, its list order being that of
\* value_counts()
IdVariableAnalysis(frame, var, values, repeated, missing_count) ==
    [total_observations |-> FrameLen(frame),
     unique_values_count |-> Cardinality(values \ repeated),
     duplicated_values_count |-> Cardinality(repeated),
     total_duplicated_items |->
         SumOver([v \in repeated |-> ValueCount(frame, var, v)], repeated),
     missing_count |-> missing_count,
     missing_percentage |-> PercentTenths(missing_count, FrameLen(frame)),
     repeated_details |->
         {[value |-> Str(v), count |-> ValueCount(frame, var, v),
           times_repeated |-> ValueCount(frame, var, v) - 1] : v \in repeated}]

\* _analyze_id_variable_by_instrument(data, variable)
AnalyzeIdVariableByInstrument(frame, var) ==
    IdVariableAnalysis(frame, var, NonNullValues(frame, var),
                       DuplicatedValues(frame, var),
                       Cardinality(NullPositions(frame, var)))

\* the per-instrument pass of validate_duplicates over the item-id variables
\* that are columns: key, size and the analysis of each variable
DuplicateInstrumentsAnalysis(instruments, item_id_vars) ==
    [j \in 1..Len(instruments) |->
       [key |-> instruments[j].key,
        total_observations |-> FrameLen(instruments[j].frame),
        variables_analysis |->
            [var \in Range(item_id_vars) \cap Columns |->
               AnalyzeIdVariableByInstrument(instruments[j].frame, var)]]]

\* the ID_VAR_NOT_FOUND errors, one per instrument and absent variable, in
\* the order of the nested loops
IdVarNotFoundErrors(instruments, item_id_vars) ==
    LET absent == SelectSeqBy(item_id_vars, Range(item_id_vars) \ Columns)
    IN Concat([j \in 1..Len(instruments) |->
                 [i \in 1..Len(absent) |->
                    [code |-> "ID_VAR_NOT_FOUND",
                     message |-> "Variable de ID '" \o absent[i]
                         \o "' no encontrada en el instrumento "
                         \o instruments[j].key,
                     severity |-> "error"]]])

\* a variant of OverallOf that analyses the rows of all instruments together
OverallOfAllRows(instruments, item_id_vars, field) ==
    LET present == SelectSeqBy(item_id_vars, Columns)
        whole == DataFrame(Concat([j \in 1..Len(instruments) |->
                                     instruments[j].frame.rows]))
    IN SeqSum([i \in 1..Len(present) |->
                 AnalyzeIdVariableByInstrument(whole, present[i])[field]])

\* overall_duplicates / overall_missing: accumulated over instruments and over
\* the list of variables (a repeated variable counts again)
OverallOf(instruments, item_id_vars, field) ==
    LET present == SelectSeqBy(item_id_vars, Columns)
    IN SeqSum(Concat([j \in 1..Len(instruments) |->
                        [i \in 1..Len(present) |->
                           AnalyzeIdVariableByInstrument(
                               instruments[j].frame, present[i])[field]]]))

\* the result validate_duplicates leaves after its loop over the instruments:
\* invalid without a further error when a duplicate or a null was counted,
\* duplicate_items always the empty list
DuplicateResultOf(frame, instruments, item_id_vars, not_found, overall_duplicates, overall_missing) ==
    [is_valid |-> not_found = <<>> /\ overall_duplicates = 0
                     /\ overall_missing = 0,
     errors |-> not_found,
     warnings |-> <<>>,
     statistics |->
         [instruments_analysis |->
              DuplicateInstrumentsAnalysis(instruments, item_id_vars),
          total_duplicated_items |-> overall_duplicates,
          total_missing_values |-> overall_missing,
          total_observations_analyzed |-> FrameLen(frame)],
     duplicate_items |-> <<>>,
     instruments_analyzed |-> Len(instruments),
     total_items_checked |-> FrameLen(frame)]

\* the try block of validate_duplicates, for the instruments grouped
DuplicatesOfInstruments(frame, instruments, item_id_vars) ==
    DuplicateResultOf(frame, instruments, item_id_vars,
                      IdVarNotFoundErrors(instruments, item_id_vars),
                      OverallOf(instruments, item_id_vars, "total_duplicated_items"),
                      OverallOf(instruments, item_id_vars, "missing_count"))

\* validate_duplicates(data, categorization) of common_checks
ValidateDuplicates(frame, cat) ==
    IF cat.item_id_vars = <<>>
    THEN AddWarning(NewDuplicateResult, "NO_ITEM_ID_VARS",
                    "No se han definido variables de identificador de item")
    ELSE IF GroupingRaises(frame, cat.instrument_vars)
    THEN AddError(NewDuplicateResult, "VALIDATION_ERROR",
                  "Error durante validacion de identificadores de items: "
                      \o UnhashableMessage, "error")
    ELSE DuplicatesOfInstruments(frame,
                                 GetInstruments(frame, cat.instrument_vars),
                                 cat.item_id_vars)

\* ------------------------------------------- duplicates (ValidationEngine)
\* the positions of the first occurrences of the values of S in the column,
\* ascending: the order in which the duplicated values are listed
FirstPositions(frame, var, S) ==
    {i \in 1..Len(frame.rows) :
        /\ frame.rows[i][var] \in S
        /\ \A h \in 1..(i - 1) : frame.rows[h][var] # frame.rows[i][var]}

RECURSIVE SetToSeq(_)
\* a set of integers as an ascending sequence
SetToSeq(S) ==
    IF S = {} THEN <<>>
    ELSE LET m == CHOOSE x \in S : \A y \in S : x <= y
         IN <<m>> \o SetToSeq(S \ {m})

\* instrument_data[mask].index.tolist(): the labels, in the frame given, of
\* the rows whose cell equals the value
RowIndices(frame, var, value) ==
    LET hits == SetToSeq({i \in 1..Len(frame.rows) : frame.rows[i][var] = value})
    IN [i \in 1..Len(hits) |-> frame.index[hits[i]]]

\* the DuplicateItem entries of one variable: one per value counted more than
\* once, firsts being the positions of their first occurrences
DuplicateItemsOf(frame, var, instrument_combination, firsts) ==
    [d \in 1..Len(firsts) |->
       [item_id |-> Str(frame.rows[firsts[d]][var]),
        instrument_combination |-> instrument_combination,
        row_indices |-> RowIndices(frame, var, frame.rows[firsts[d]][var])]]

\* the item-id variables _find_duplicates_in_instrument analyses: those that
\* are columns
PresentIdVars(item_id_vars) == SelectSeqBy(item_id_vars, Columns)

\* _find_duplicates_in_instrument(instrument_data, instrument_combination):
\* one DuplicateItem per item-id variable that is a column and per value
\* counted more than once
FindDuplicatesInInstrument(frame, instrument_combination, item_id_vars) ==
    Concat([i \in 1..Len(PresentIdVars(item_id_vars)) |->
              DuplicateItemsOf(
                  frame, PresentIdVars(item_id_vars)[i], instrument_combination,
                  SetToSeq(FirstPositions(
                      frame, PresentIdVars(item_id_vars)[i],
                      DuplicatedValues(frame, PresentIdVars(item_id_vars)[i]))))])

\* the loop `for pair in instrument_key.split('|'): key, value =
\* pair.split(':', 1)` raises ValueError when a piece holds no ':'; with
\* values free of '|' and ':' that is the empty key (no instrument variable
\* is a column)
CombinationRaises(instruments) ==
    \E j \in 1..Len(instruments) : instruments[j].key = ""

ValueErrorMessage == "not enough values to unpack (expected 2, got 1)"

\* instrument_combination: the dict parsed back from the key; with values
\* free of '|' and ':' these are the sorted pairs the key was joined from
InstrumentCombination(inst, instrument_vars) ==
    IF inst.key = SINGLE_INSTRUMENT_KEY THEN <<>>
    ELSE LET ks == SortedItems(InstrumentValueKeys(instrument_vars))
         IN [i \in 1..Len(ks) |-> <<ks[i], Str(inst.frame.rows[1][ks[i]])>>]

\* the end of the try block of ValidationEngine.validate_duplicates: the
\* DUPLICATE_ITEMS_FOUND error when a duplicate was collected
EngineResultOf(filled, all_duplicates) ==
    IF all_duplicates # <<>>
    THEN [AddError([filled EXCEPT !.duplicate_items = all_duplicates],
                   "DUPLICATE_ITEMS_FOUND",
                   "Se encontraron " \o ToString(Len(all_duplicates))
                       \o " items duplicados", "error")
            EXCEPT !.statistics =
               [affected_instruments |-> 1,
                total_duplicates |-> Len(all_duplicates)]]
    ELSE [filled EXCEPT !.duplicate_items = all_duplicates,
                        !.statistics =
                            [message |-> "No se encontraron items duplicados"]]

\* the try block of ValidationEngine.validate_duplicates, for the instruments
\* grouped
EngineDuplicatesOfInstruments(instruments, cat) ==
    IF CombinationRaises(instruments)
    THEN AddError([NewDuplicateResult EXCEPT
                     !.instruments_analyzed = Len(instruments)],
                  "VALIDATION_ERROR",
                  "Error durante validacion de duplicados: "
                      \o ValueErrorMessage, "error")
    ELSE EngineResultOf(
             [NewDuplicateResult EXCEPT
                !.instruments_analyzed = Len(instruments),
                !.total_items_checked =
                    SeqSum([j \in 1..Len(instruments) |->
                              FrameLen(instruments[j].frame)])],
             Concat([j \in 1..Len(instruments) |->
                FindDuplicatesInInstrument(
                    instruments[j].frame,
                    InstrumentCombination(instruments[j], cat.instrument_vars),
                    cat.item_id_vars)]))

\* ValidationEngine.validate_duplicates(); defined when the grouping of the
\* validation parameters, made before the try, does not raise
EngineValidateDuplicates(frame, cat) ==
    IF cat.item_id_vars = <<>>
    THEN AddError(NewDuplicateResult, "NO_ITEM_ID_VARS",
                  "No se han definido variables de identificador de item",
                  "error")
    ELSE EngineDuplicatesOfInstruments(
             GetInstruments(frame, cat.instrument_vars), cat)

\* ------------------------------------------------------------- metadata
\* float(value) for the cell strings that parse as numbers, in tenths
FloatOf ==
    ("1" :> 10) @@ ("2" :> 20) @@ ("4" :> 40) @@ ("4.0" :> 40) @@ ("4.5" :> 45)
        @@ ("9" :> 90) @@ ("10" :> 100) @@ ("2023" :> 20230) @@ ("2024" :> 20240)

\* Python's order on the cell strings used here (list.sort() on strings)
LexOrder == <<"1", "10", "2", "2023", "2024", "4", "4.0", "4.5", "9", "A",
              "B", "NAN", "d", "i1", "i2", "nan", "x", "y">>

LexRank(v) == CHOOSE i \in 1..Len(LexOrder) : LexOrder[i] = v

\* the second components of a sequence of pairs
Seconds(pairs) == [i \in 1..Len(pairs) |-> pairs[i][2]]

\* the cell strings float() turns into NaN
NanStrings == {"nan", "NAN"}

\* the strings float(value) accepts
ParsesAsFloat == DOMAIN FloatOf \cup NanStrings

\* float(value) as a sort key: a number in tenths, or NaN as no number
FloatKey(v) == IF v \in NanStrings THEN NONE ELSE Some(FloatOf[v])

\* a < b on floats: false whenever either side is NaN
FloatLess(a, b) == a # NONE /\ b # NONE /\ Get(a) < Get(b)

\* the first elements of a list reversed, the others in place
ReversePrefix(s, n) ==
    [i \in 1..Len(s) |-> IF i <= n THEN s[n + 1 - i] ELSE s[i]]

\* count_run of list.sort on a list of at least two pairs: the length of the
\* run the list starts with, strictly descending when s[2] < s[1] and
\* non-descending otherwise
CountRun(s, descending) ==
    CHOOSE n \in 2..Len(s) :
        /\ \A i \in 3..n : FloatLess(s[i][1], s[i - 1][1]) = descending
        /\ n < Len(s) => FloatLess(s[n + 1][1], s[n][1]) # descending

RECURSIVE BinarySearch(_, _, _, _)
\* the loop of binarysort: the insertion point of pivot in s[l+1..r]
BinarySearch(s, pivot, l, r) ==
    IF l >= r THEN l
    ELSE IF FloatLess(pivot[1], s[l + (r - l) \div 2 + 1][1])
    THEN BinarySearch(s, pivot, l, l + (r - l) \div 2)
    ELSE BinarySearch(s, pivot, l + (r - l) \div 2 + 1, r)

\* s with the element after its first start ones moved to position pos + 1
InsertAt(s, start, pos) ==
    SubSeq(s, 1, pos) \o <<s[start + 1]>> \o SubSeq(s, pos + 1, start)
        \o SubSeq(s, start + 2, Len(s))

RECURSIVE BinarySort(_, _)
\* binarysort of list.sort: s[1..start] is in order, the others are inserted
\* one by one
BinarySort(s, start) ==
    IF start >= Len(s) THEN s
    ELSE BinarySort(InsertAt(s, start, BinarySearch(s, s[start + 1], 0, start)),
                    start + 1)

\* the run found by count_run put in ascending order, then binarysort
SortFromRun(s, descending, n) ==
    BinarySort(IF descending THEN ReversePrefix(s, n) ELSE s, n)

\* list.sort(key=lambda x: x[0]) on pairs (float, string), for the lists of
\* fewer than 64 elements that are sorted as one run
ListSortByFloat(s) ==
    IF Len(s) < 2 THEN s
    ELSE SortFromRun(s, FloatLess(s[2][1], s[1][1]),
                     CountRun(s, FloatLess(s[2][1], s[1][1])))

\* the numeric part of smart_sort_values, sorted by float(value)
SortNumeric(numeric) ==
    Seconds(ListSortByFloat(
        [i \in 1..Len(numeric) |-> <<FloatKey(numeric[i]), numeric[i]>>]))

\* the string part of smart_sort_values, in string order
SortStrings(strings) ==
    Seconds(StableSortBy(
        [i \in 1..Len(strings) |-> <<LexRank(strings[i]), strings[i]>>], 1))

\* smart_sort_values(values_list): the values that parse as numbers by
\* numeric value, then the others in string order
SmartSortValues(values_list) ==
    SortNumeric(SelectSeqBy(values_list, ParsesAsFloat))
        \o SortStrings(SelectSeqBy(values_list, Range(values_list) \ ParsesAsFloat))

\* the values at the positions firsts, by descending count, equal counts in
\* the order given
ByDescendingCount(frame, var, firsts) ==
    StableSortBy(
        [i \in 1..Len(firsts) |->
           <<frame.rows[firsts[i]][var],
             0 - ValueCount(frame, var, frame.rows[firsts[i]][var])>>], 2)

\* the first components of a sequence of pairs
Firsts(pairs) == [i \in 1..Len(pairs) |-> pairs[i][1]]

\* the keys of frame[var].dropna().value_counts(): by descending count, equal
\* counts in order of first appearance
ValueCountsKeys(frame, var) ==
    Firsts(ByDescendingCount(
        frame, var,
        SetToSeq(FirstPositions(frame, var, NonNullValues(frame, var)))))

\* value_counts.get(value, 0) for the string rendered from a key
ValueCountsGet(frame, var, value) ==
    IF value \in NonNullValues(frame, var) THEN ValueCount(frame, var, value) ELSE 0

\* the strings of a sequence of cell values
Strs(values) == [i \in 1..Len(values) |-> Str(values[i])]

\* the dict _analyze_variable_by_instrument returns, from the sorted unique
\* values and the number of nulls
VariableAnalysis(frame, var, unique_values, missing_count) ==
    [total_observations |-> FrameLen(frame),
     unique_values_count |-> Len(unique_values),
     missing_count |-> missing_count,
     missing_percentage |-> PercentTenths(missing_count, FrameLen(frame)),
     distribution |->
         [i \in 1..Len(unique_values) |->
            [value |-> unique_values[i],
             count |-> ValueCountsGet(frame, var, unique_values[i]),
             percentage |->
                 PercentTenths(ValueCountsGet(frame, var, unique_values[i]),
                               FrameLen(frame))]]]

\* _analyze_variable_by_instrument(data, variable) of check_metadata
AnalyzeVariableByInstrument(frame, var) ==
    VariableAnalysis(frame, var,
                     SmartSortValues(Strs(ValueCountsKeys(frame, var))),
                     Cardinality(NullPositions(frame, var)))

\* MetadataValidationResult(is_valid=True)
NewMetadataResult ==
    [is_valid |-> TRUE, errors |-> <<>>, warnings |-> <<>>, statistics |-> {},
     missing_values |-> {}, completeness_stats |-> {},
     unique_values_summary |-> {}]

\* the METADATA_VAR_NOT_FOUND errors, one per instrument and absent variable
MetadataVarNotFoundErrors(instruments, metadata_vars) ==
    LET absent == SelectSeqBy(metadata_vars, Range(metadata_vars) \ Columns)
    IN Concat([j \in 1..Len(instruments) |->
                 [i \in 1..Len(absent) |->
                    [code |-> "METADATA_VAR_NOT_FOUND",
                     message |-> "Variable critica '" \o absent[i]
                         \o "' no encontrada en el instrumento "
                         \o instruments[j].key,
                     severity |-> "error"]]])

\* overall_missing / overall_observations of validate_metadata_completeness
MetadataOverallOf(instruments, metadata_vars, field) ==
    LET present == SelectSeqBy(metadata_vars, Columns)
    IN SeqSum(Concat([j \in 1..Len(instruments) |->
                        [i \in 1..Len(present) |->
                           AnalyzeVariableByInstrument(
                               instruments[j].frame, present[i])[field]]]))

\* the per-instrument pass of validate_metadata_completeness over the
\* metadata variables that are columns
MetadataInstrumentsAnalysis(instruments, metadata_vars) ==
    [j \in 1..Len(instruments) |->
       [key |-> instruments[j].key,
        total_observations |-> FrameLen(instruments[j].frame),
        variables_analysis |->
            [var \in Range(metadata_vars) \cap Columns |->
               AnalyzeVariableByInstrument(instruments[j].frame, var)]]]

\* the result validate_metadata_completeness leaves after its loop: invalid
\* without a further error when a null was counted
MetadataResultOf(instruments, metadata_vars, not_found, overall_missing, overall_observations) ==
    [NewMetadataResult EXCEPT
       !.is_valid = not_found = <<>> /\ overall_missing = 0,
       !.errors = not_found,
       !.statistics =
           [instruments_analysis |->
                MetadataInstrumentsAnalysis(instruments, metadata_vars),
            total_missing_values |-> overall_missing,
            total_observations_analyzed |-> overall_observations,
            missing_percentage_overall |->
                PercentTenths(overall_missing, overall_observations)]]

\* the try block of validate_metadata_completeness, for the instruments grouped
MetadataOfInstruments(instruments, metadata_vars) ==
    MetadataResultOf(
        instruments, metadata_vars,
        MetadataVarNotFoundErrors(instruments, metadata_vars),
        MetadataOverallOf(instruments, metadata_vars, "missing_count"),
        MetadataOverallOf(instruments, metadata_vars, "total_observations"))

\* validate_metadata_completeness(data, categorization)
ValidateMetadataCompleteness(frame, cat) ==
    IF cat.metadata_vars = <<>>
    THEN AddWarning(NewMetadataResult, "NO_METADATA_VARS",
                    "No se han definido variables de informacion critica")
    ELSE IF GroupingRaises(frame, cat.instrument_vars)
    THEN AddError(NewMetadataResult, "VALIDATION_ERROR",
                  "Error durante validacion de variables criticas: "
                      \o UnhashableMessage, "error")
    ELSE MetadataOfInstruments(GetInstruments(frame, cat.instrument_vars),
                               cat.metadata_vars)

\* -------------------------------------------------------- classification
\* ClassificationValidationResult(is_valid=True)
NewClassificationResult ==
    [is_valid |-> TRUE, errors |-> <<>>, warnings |-> <<>>, statistics |-> <<>>,
     empty_cells |-> <<>>, unique_counts_per_instrument |-> <<>>,
     completeness_stats |-> <<>>]

\* data[null_mask].index.tolist(): the labels of the rows with a null cell
EmptyIndices(frame, var) ==
    LET hits == SetToSeq(NullPositions(frame, var))
    IN [i \in 1..Len(hits) |-> frame.index[hits[i]]]

\* (complete_rows / total_rows) * 100 if total_rows > 0 else 0, as the exact
\* fraction num / den
CompletenessPercentage(frame, var) ==
    IF FrameLen(frame) > 0
    THEN [num |-> (FrameLen(frame) - Len(EmptyIndices(frame, var))) * 100,
          den |-> FrameLen(frame)]
    ELSE [num |-> 0, den |-> 1]

\* the statistics of analyze_classification_variables, each entry present
\* only when its dict is non-empty; averages in hundredths
ClassificationStatistics(present, empty_cells, completeness, unique_counts) ==
    (IF empty_cells # <<>>
     THEN [total_empty_cells |->
               SeqSum([i \in 1..Len(empty_cells) |-> Len(empty_cells[i].indices)]),
           variables_with_empty_cells |-> Len(empty_cells)]
     ELSE <<>>)
    @@ (IF completeness # <<>>
        THEN [average_completeness |->
                  RoundDiv(SeqSum([i \in 1..Len(completeness) |->
                                     completeness[i].value.num]) * 100,
                           completeness[1].value.den * Len(completeness))]
        ELSE <<>>)
    @@ (IF unique_counts # <<>>
        THEN [instruments_analyzed |-> Len(unique_counts),
              average_unique_values_per_variable |->
                  [var \in Range(present) |->
                     RoundDiv(SeqSum([j \in 1..Len(unique_counts) |->
                                        unique_counts[j].counts[var]]) * 100,
                              Len(unique_counts))]]
        ELSE <<>>)

\* the CLASSIFICATION_VAR_NOT_FOUND warnings, one per absent variable
ClassificationVarNotFoundWarnings(absent) ==
    [i \in 1..Len(absent) |->
       [code |-> "CLASSIFICATION_VAR_NOT_FOUND",
        message |-> "Variable de clasificacion '"
            \o absent[i] \o "' no encontrada en los datos"]]

\* empty_cells: the labels of the null cells of each variable that has some
EmptyCells(frame, holed) ==
    [i \in 1..Len(holed) |->
       [var |-> holed[i], indices |-> EmptyIndices(frame, holed[i])]]

\* completeness_stats: the completeness of each variable that is a column
CompletenessStats(frame, present) ==
    [i \in 1..Len(present) |->
       [var |-> present[i],
        value |-> CompletenessPercentage(frame, present[i])]]

\* unique_counts_per_instrument: nunique() of each variable per instrument
UniqueCountsPerInstrument(instruments, present) ==
    IF present = <<>> THEN <<>>
    ELSE [j \in 1..Len(instruments) |->
            [key |-> instruments[j].key,
             counts |-> [var \in Range(present) |->
                           NUnique(instruments[j].frame, var)]]]

\* a variant of ClassificationResultOf that is invalid when a cell is empty
ClassificationResultOfPenalising(absent, present, empty_cells, completeness, unique_counts) ==
    [NewClassificationResult EXCEPT
       !.is_valid = empty_cells = <<>>,
       !.warnings = ClassificationVarNotFoundWarnings(absent),
       !.empty_cells = empty_cells,
       !.completeness_stats = completeness,
       !.unique_counts_per_instrument = unique_counts,
       !.statistics = ClassificationStatistics(
           present, empty_cells, completeness, unique_counts)]

\* the result analyze_classification_variables fills in
ClassificationResultOf(absent, present, empty_cells, completeness, unique_counts) ==
    [NewClassificationResult EXCEPT
       !.warnings = ClassificationVarNotFoundWarnings(absent),
       !.empty_cells = empty_cells,
       !.completeness_stats = completeness,
       !.unique_counts_per_instrument = unique_counts,
       !.statistics = ClassificationStatistics(
           present, empty_cells, completeness, unique_counts)]

\* the try block of analyze_classification_variables, for the variables that
\* are columns (a dict entry per variable, so a repeated one counts once)
ClassificationOfPresent(frame, instruments, absent, present) ==
    ClassificationResultOf(
        absent, present,
        EmptyCells(frame,
                   SelectSeqBy(present,
                       {v \in Range(present) : NullPositions(frame, v) # {}})),
        CompletenessStats(frame, present),
        UniqueCountsPerInstrument(instruments, present))

\* the entries of a list before the first unhashable one
BeforeUnhashable(s) ==
    SubSeq(s, 1, (CHOOSE i \in 1..Len(s) :
                    s[i] = UNHASHABLE /\ \A h \in 1..(i - 1) : s[h] # UNHASHABLE) - 1)

\* the except branch of analyze_classification_variables: `var not in
\* data.columns` raised on an unhashable entry, after the warnings of the
\* absent variables listed before it; the dicts of the loop are not stored
ClassificationOfUnhashable(seen) ==
    AddError([NewClassificationResult EXCEPT
                !.warnings = ClassificationVarNotFoundWarnings(
                                 SelectSeqBy(seen, Range(seen) \ Columns))],
             "VALIDATION_ERROR",
             "Error durante analisis de variables de clasificacion: "
                 \o UnhashableMessage, "error")

\* analyze_classification_variables(data, categorization); defined when the
\* grouping, made before the try, does not raise
AnalyzeClassificationVariables(frame, cat) ==
    IF cat.classification_vars = <<>>
    THEN AddWarning(NewClassificationResult, "NO_CLASSIFICATION_VARS",
                    "No se han definido variables de clasificacion")
    ELSE IF UNHASHABLE \in Range(cat.classification_vars)
    THEN ClassificationOfUnhashable(BeforeUnhashable(cat.classification_vars))
    ELSE ClassificationOfPresent(
             frame, GetInstruments(frame, cat.instrument_vars),
             SelectSeqBy(cat.classification_vars,
                         Range(cat.classification_vars) \ Columns),
             Dedup(SelectSeqBy(cat.classification_vars, Columns)))

\* --------------------------------------------------- advanced constraints
\* AdvancedConstraintsValidationResult(is_valid=True)
NewAdvancedResult ==
    [is_valid |-> TRUE, errors |-> <<>>, warnings |-> <<>>, statistics |-> <<>>,
     item_count_errors |-> <<>>, key_variable_errors |-> <<>>,
     item_count_passed |-> <<>>, key_variable_passed |-> <<>>]

\* len(None) in the validation parameters, before the try
NoneLenMessage == "object of type 'NoneType' has no len()"

\* reading the constraint lists raises when one of them is None
AdvancedOptionsRaise(cat) ==
    /\ cat.advanced_options # NONE
    /\ \/ Get(cat.advanced_options).item_count_constraints = NONE
       \/ Get(cat.advanced_options).key_variable_constraints = NONE

\* _get_display_name(inst_key): '|' becomes ' - ' and ':' becomes ': '; with
\* values free of '|' and ':' this rewrites the pairs the key was joined from
GetDisplayName(inst, instrument_vars) ==
    IF inst.key = SINGLE_INSTRUMENT_KEY THEN SINGLE_INSTRUMENT_DISPLAY
    ELSE LET ks == SortedItems(InstrumentValueKeys(instrument_vars))
         IN Join([i \in 1..Len(ks) |->
                    ks[i] \o ": " \o Str(inst.frame.rows[1][ks[i]])], " - ")

\* the instruments whose key is the scope
WithKey(instruments, scope) ==
    SelectSeq(instruments, LAMBDA inst : inst.key = scope)

\* a variant of InScope that falls back to every instrument when no instrument
\* has the scope as its key
InScopeOrAll(instruments, scope) ==
    IF scope = "global" \/ WithKey(instruments, scope) = <<>> THEN instruments
    ELSE WithKey(instruments, scope)

\* the instruments a constraint applies to: all of them for scope 'global',
\* else the one whose key is the scope, if any
InScope(instruments, scope) ==
    IF scope = "global" THEN instruments ELSE WithKey(instruments, scope)

\* a variant of ItemCountEntryOf whose difference is expected - actual
ItemCountEntryOfReversed(inst_key, display, expected, actual) ==
    IF actual # expected
    THEN [passed |-> FALSE,
          message |-> "Instrumento '" \o display \o "': se esperaban "
              \o ToString(expected) \o " items, se encontraron "
              \o ToString(actual),
          context |-> [instrument |-> inst_key,
                       expected_count |-> expected,
                       actual_count |-> actual,
                       difference |-> expected - actual]]
    ELSE [passed |-> TRUE,
          instrument |-> inst_key,
          instrument_display |-> display,
          expected_count |-> expected,
          actual_count |-> actual]

\* one step of _validate_item_counts: the entry for a constraint and an
\* instrument in its scope, display being _get_display_name of its key
ItemCountEntryOf(inst_key, display, expected, actual) ==
    IF actual # expected
    THEN [passed |-> FALSE,
          message |-> "Instrumento '" \o display \o "': se esperaban "
              \o ToString(expected) \o " items, se encontraron "
              \o ToString(actual),
          context |-> [instrument |-> inst_key,
                       expected_count |-> expected,
                       actual_count |-> actual,
                       difference |-> actual - expected]]
    ELSE [passed |-> TRUE,
          instrument |-> inst_key,
          instrument_display |-> display,
          expected_count |-> expected,
          actual_count |-> actual]

\* the body of the loop of _validate_item_counts for one instrument
ItemCountEntry(constraint, inst, instrument_vars) ==
    ItemCountEntryOf(inst.key, GetDisplayName(inst, instrument_vars),
                     constraint.expected_count, FrameLen(inst.frame))

\* the entries of one constraint over the instruments in its scope
ItemCountEntries(constraint, scoped, instrument_vars) ==
    [j \in 1..Len(scoped) |-> ItemCountEntry(constraint, scoped[j], instrument_vars)]

\* _validate_item_counts(instruments, constraints): all entries in loop order
ValidateItemCounts(instruments, constraints, instrument_vars) ==
    Concat([c \in 1..Len(constraints) |->
              ItemCountEntries(constraints[c],
                               InScope(instruments, constraints[c].scope),
                               instrument_vars)])

\* a variant of NormalizeValue that renders every value as str(val)
NormalizeValueLiteral(val) == Str(val)

\* normalize_value(val): a number without fractional part renders as its
\* integer, anything else as str(val)
NormalizeValue(val) ==
    LET s == Str(val)
    IN IF s \in DOMAIN FloatOf /\ FloatOf[s] % 10 = 0
       THEN ToString(FloatOf[s] \div 10)
       ELSE s

\* inst_data[var_name].dropna().unique(): in order of first appearance
UniqueVals(frame, var) ==
    LET firsts == SetToSeq(FirstPositions(frame, var, NonNullValues(frame, var)))
    IN [i \in 1..Len(firsts) |-> frame.rows[firsts[i]][var]]

\* the message parts of a failed key check
KeyErrorParts(expected_count, actual_count, cardinality_ok, values_ok, unexpected, missing) ==
    (IF ~cardinality_ok
     THEN <<"se esperaban " \o ToString(expected_count)
              \o " valores unicos, se encontraron " \o ToString(actual_count)>>
     ELSE <<>>)
    \o (IF ~values_ok /\ unexpected # {}
        THEN <<"valores inesperados: "
                 \o Join(SelectSeqBy(LexOrder, unexpected), ", ")>>
        ELSE <<>>)
    \o (IF ~values_ok /\ missing # {}
        THEN <<"valores faltantes: "
                 \o Join(SelectSeqBy(LexOrder, missing), ", ")>>
        ELSE <<>>)

\* expected_count in a context: None unless the cardinality is checked
OptionalCount(constraint) ==
    IF constraint.expected_key_count > 0
    THEN Some(constraint.expected_key_count) ELSE NONE

\* a variant of KeyCheckEntries that reports the cardinality and the values
\* in separate errors
KeyCheckEntriesSeparate(inst_key, display, var_name, constraint, unique_vals, normalized_actual, expected_set, actual_set, cardinality_ok, values_ok) ==
    [errors |->
         [i \in 1..((IF cardinality_ok THEN 0 ELSE 1) + (IF values_ok THEN 0 ELSE 1)) |->
            [message |-> "Instrumento '" \o display \o "', variable '"
                 \o var_name \o "': "
                 \o Join(KeyErrorParts(constraint.expected_key_count,
                                       Len(unique_vals),
                                       cardinality_ok \/ i = 2,
                                       values_ok /\ (cardinality_ok \/ i = 2),
                                       actual_set \ expected_set,
                                       expected_set \ actual_set), "; "),
             context |->
                 [instrument |-> inst_key,
                  variable |-> var_name,
                  expected_count |-> OptionalCount(constraint),
                  actual_count |-> Len(unique_vals),
                  expected_values |-> expected_set,
                  actual_values |-> normalized_actual,
                  matched_values |-> expected_set \cap actual_set,
                  unexpected_values |-> actual_set \ expected_set,
                  missing_values |-> expected_set \ actual_set]]],
     passed |->
         IF (constraint.expected_key_count > 0 \/ constraint.expected_values # <<>>)
                /\ cardinality_ok /\ values_ok
         THEN <<[instrument |-> inst_key,
                 instrument_display |-> display,
                 variable |-> var_name,
                 expected_count |-> OptionalCount(constraint),
                 actual_count |-> Len(unique_vals),
                 expected_values |-> constraint.expected_values,
                 actual_values |-> Strs(unique_vals)]>>
         ELSE <<>>]

\* the entries _check_key_in_instrument leaves once both verdicts are known
KeyCheckEntries(inst_key, display, var_name, constraint, unique_vals, normalized_actual, expected_set, actual_set, cardinality_ok, values_ok) ==
    [errors |->
         IF ~cardinality_ok \/ ~values_ok
         THEN <<[message |-> "Instrumento '" \o display \o "', variable '"
                     \o var_name \o "': "
                     \o Join(KeyErrorParts(constraint.expected_key_count,
                                           Len(unique_vals), cardinality_ok,
                                           values_ok,
                                           actual_set \ expected_set,
                                           expected_set \ actual_set), "; "),
                 context |->
                     [instrument |-> inst_key,
                      variable |-> var_name,
                      expected_count |-> OptionalCount(constraint),
                      actual_count |-> Len(unique_vals),
                      expected_values |-> expected_set,
                      actual_values |-> normalized_actual,
                      matched_values |-> expected_set \cap actual_set,
                      unexpected_values |-> actual_set \ expected_set,
                      missing_values |-> expected_set \ actual_set]]>>
         ELSE <<>>,
     passed |->
         IF (constraint.expected_key_count > 0 \/ constraint.expected_values # <<>>)
                /\ cardinality_ok /\ values_ok
         THEN <<[instrument |-> inst_key,
                 instrument_display |-> display,
                 variable |-> var_name,
                 expected_count |-> OptionalCount(constraint),
                 actual_count |-> Len(unique_vals),
                 expected_values |-> constraint.expected_values,
                 actual_values |-> Strs(unique_vals)]>>
         ELSE <<>>]

\* the two verdicts of _check_key_in_instrument: the cardinality, checked when
\* expected_key_count > 0, and the values, checked when expected_values is
\* not empty
KeyCheckVerdicts(inst_key, display, var_name, constraint, unique_vals, normalized_actual, expected_set, actual_set) ==
    KeyCheckEntries(inst_key, display, var_name, constraint, unique_vals,
                    normalized_actual, expected_set, actual_set,
                    IF constraint.expected_key_count > 0
                    THEN Len(unique_vals) = constraint.expected_key_count
                    ELSE TRUE,
                    IF constraint.expected_values # <<>>
                    THEN actual_set \ expected_set = {}
                             /\ expected_set \ actual_set = {}
                    ELSE TRUE)

\* the normalized values of _check_key_in_instrument
KeyCheckNormalized(inst_key, display, var_name, constraint, unique_vals, normalized_actual) ==
    KeyCheckVerdicts(inst_key, display, var_name, constraint, unique_vals,
                     normalized_actual,
                     IF constraint.expected_values # <<>>
                     THEN {NormalizeValue(v) : v \in Range(constraint.expected_values)}
                     ELSE {},
                     IF constraint.expected_values # <<>>
                     THEN Range(normalized_actual) ELSE {})

\* the check of one variable once its unique values are read
KeyCheckOf(inst_key, display, var_name, constraint, unique_vals) ==
    KeyCheckNormalized(inst_key, display, var_name, constraint, unique_vals,
                       [i \in 1..Len(unique_vals) |-> NormalizeValue(unique_vals[i])])

\* _check_key_in_instrument(inst_data, inst_key, var_name, constraint): the
\* error entries (at most one) and the passed entry (a sequence of at most one)
CheckKeyInInstrument(inst, var_name, constraint, instrument_vars) ==
    KeyCheckOf(inst.key, GetDisplayName(inst, instrument_vars), var_name,
               constraint, UniqueVals(inst.frame, var_name))

\* the error and passed lists of several checks, in order
MergeChecks(checks) ==
    [errors |-> Concat([j \in 1..Len(checks) |-> checks[j].errors]),
     passed |-> Concat([j \in 1..Len(checks) |-> checks[j].passed])]

\* the checks of one constraint over the instruments in its scope
KeyChecksInScope(scoped, constraint, instrument_vars) ==
    MergeChecks([j \in 1..Len(scoped) |->
                   CheckKeyInInstrument(scoped[j], constraint.variable_name,
                                        constraint, instrument_vars)])

\* a variant of KeyConstraintChecks that reports an absent variable once per
\* instrument in the scope of the constraint
KeyConstraintChecksPerInstrument(instruments, constraint, instrument_vars) ==
    IF constraint.variable_name \notin Columns
    THEN [errors |-> [j \in 1..Len(InScope(instruments, constraint.scope)) |->
                        [message |-> "Variable de clave '"
                             \o constraint.variable_name
                             \o "' no encontrada en datos",
                         context |-> [variable |-> constraint.variable_name]]],
          passed |-> <<>>]
    ELSE KeyChecksInScope(InScope(instruments, constraint.scope), constraint,
                          instrument_vars)

\* the body of the loop of _validate_key_variables: the standalone error of
\* an absent variable, or the checks of the scope
KeyConstraintChecks(instruments, constraint, instrument_vars) ==
    IF constraint.variable_name \notin Columns
    THEN [errors |-> <<[message |-> "Variable de clave '"
                            \o constraint.variable_name
                            \o "' no encontrada en datos",
                        context |-> [variable |-> constraint.variable_name]]>>,
          passed |-> <<>>]
    ELSE KeyChecksInScope(InScope(instruments, constraint.scope), constraint,
                          instrument_vars)

\* _validate_key_variables(data, instruments, constraints)
ValidateKeyVariables(instruments, constraints, instrument_vars) ==
    MergeChecks([c \in 1..Len(constraints) |->
                   KeyConstraintChecks(instruments, constraints[c], instrument_vars)])

\* a variant of IssuesOf that reports a list of error entries as one issue
IssuesOfOnce(entries, code) ==
    [i \in 1..(IF entries = <<>> THEN 0 ELSE 1) |->
       [code |-> code, message |-> entries[i].message, severity |-> "error"]]

\* the issues add_error appends for a list of error entries
IssuesOf(entries, code) ==
    [i \in 1..Len(entries) |->
       [code |-> code, message |-> entries[i].message, severity |-> "error"]]

\* the entries of a list that passed / that failed
Passed(entries) == SelectSeq(entries, LAMBDA e : e.passed)

Failed(entries) == SelectSeq(entries, LAMBDA e : ~e.passed)

\* a variant of AdvancedResultOf that is valid only when some constraint
\* passed
AdvancedResultOfNonVacuous(item_errors, item_passed, key_errors, key_passed, total_constraints_checked, instruments_analyzed) ==
    [is_valid |-> /\ item_errors = <<>> /\ key_errors = <<>>
                  /\ (item_passed # <<>> \/ key_passed # <<>>),
     errors |-> IssuesOf(item_errors, "ITEM_COUNT_ERROR")
                    \o IssuesOf(key_errors, "KEY_VARIABLE_ERROR"),
     warnings |-> <<>>,
     statistics |->
         [total_constraints_checked |-> total_constraints_checked,
          total_errors |-> Len(item_errors) + Len(key_errors),
          instruments_analyzed |-> instruments_analyzed],
     item_count_errors |-> item_errors,
     key_variable_errors |-> key_errors,
     item_count_passed |-> item_passed,
     key_variable_passed |-> key_passed]

\* the result validate_advanced_constraints fills in: one error issue per
\* error entry, statistics of the constraints checked
AdvancedResultOf(item_errors, item_passed, key_errors, key_passed, total_constraints_checked, instruments_analyzed) ==
    [is_valid |-> item_errors = <<>> /\ key_errors = <<>>,
     errors |-> IssuesOf(item_errors, "ITEM_COUNT_ERROR")
                    \o IssuesOf(key_errors, "KEY_VARIABLE_ERROR"),
     warnings |-> <<>>,
     statistics |->
         [total_constraints_checked |-> total_constraints_checked,
          total_errors |-> Len(item_errors) + Len(key_errors),
          instruments_analyzed |-> instruments_analyzed],
     item_count_errors |-> item_errors,
     key_variable_errors |-> key_errors,
     item_count_passed |-> item_passed,
     key_variable_passed |-> key_passed]

\* the result from the entries of both validations
AdvancedResultOfEntries(items, keys, total_constraints_checked, instruments_analyzed) ==
    AdvancedResultOf(Failed(items), Passed(items), keys.errors, keys.passed,
                     total_constraints_checked, instruments_analyzed)

\* the try block of validate_advanced_constraints, for the instruments grouped
AdvancedOfInstruments(instruments, item_count_constraints, key_variable_constraints, instrument_vars) ==
    AdvancedResultOfEntries(
        ValidateItemCounts(instruments, item_count_constraints, instrument_vars),
        ValidateKeyVariables(instruments, key_variable_constraints, instrument_vars),
        Len(item_count_constraints) + Len(key_variable_constraints),
        Len(instruments))

\* validate_advanced_constraints(data, categorization); defined when reading
\* the options, before the try, does not raise
ValidateAdvancedConstraints(frame, cat) ==
    IF cat.advanced_options = NONE THEN NewAdvancedResult
    ELSE IF GroupingRaises(frame, cat.instrument_vars)
    THEN AddError(NewAdvancedResult, "ADVANCED_VALIDATION_ERROR",
                  "Error durante validacion de constraints avanzados: "
                      \o UnhashableMessage, "error")
    ELSE AdvancedOfInstruments(
             GetInstruments(frame, cat.instrument_vars),
             Get(Get(cat.advanced_options).item_count_constraints),
             Get(Get(cat.advanced_options).key_variable_constraints),
             cat.instrument_vars)

\* ------------------------------------------------------ report aggregator
\* a variant of ValidationStatus that looks at the warnings first
ValidationStatusWarningsFirst(iv, dv, mv, cv, av) ==
    IF \/ Len(iv.warnings) > 0 \/ Len(dv.warnings) > 0 \/ Len(mv.warnings) > 0
       \/ Len(cv.warnings) > 0 \/ Len(av.warnings) > 0
    THEN "warning"
    ELSE IF \/ ~iv.is_valid \/ ~dv.is_valid \/ ~mv.is_valid
            \/ ~cv.is_valid \/ ~av.is_valid
    THEN "error"
    ELSE "success"

\* lines 45-67 of generate_comprehensive_report: error if a checker is
\* invalid, else warning if a checker has warnings, else success
ValidationStatus(iv, dv, mv, cv, av) ==
    LET has_errors == \/ ~iv.is_valid \/ ~dv.is_valid \/ ~mv.is_valid
                      \/ ~cv.is_valid \/ ~av.is_valid
        has_warnings == \/ Len(iv.warnings) > 0 \/ Len(dv.warnings) > 0
                        \/ Len(mv.warnings) > 0 \/ Len(cv.warnings) > 0
                        \/ Len(av.warnings) > 0
    IN IF has_errors THEN "error"
       ELSE IF has_warnings THEN "warning"
       ELSE "success"

\* the two export options of a complete report
ExportOptions == <<"normalized_xlsx", "validation_report">>

\* a variant of CompleteReport whose summary counts the items as instruments
CompleteReportCountingItems(frame, cat, iv, dv, mv, cv, av) ==
    [summary |-> [total_items |-> FrameLen(frame),
                  total_instruments |-> FrameLen(frame),
                  validation_status |-> ValidationStatus(iv, dv, mv, cv, av)],
     instrument_validation |-> iv,
     duplicate_validation |-> dv,
     metadata_validation |-> mv,
     classification_validation |-> cv,
     advanced_validation |-> av,
     export_options |-> ExportOptions]

\* the report of the try branch
CompleteReport(frame, cat, iv, dv, mv, cv, av) ==
    [summary |-> [total_items |-> FrameLen(frame),
                  total_instruments |-> Len(GetInstruments(frame, cat.instrument_vars)),
                  validation_status |-> ValidationStatus(iv, dv, mv, cv, av)],
     instrument_validation |-> iv,
     duplicate_validation |-> dv,
     metadata_validation |-> mv,
     classification_validation |-> cv,
     advanced_validation |-> av,
     export_options |-> ExportOptions]

\* a variant of ErrorReport that marks only the section carrying the error
ErrorReportOneSection(frame, message) ==
    [summary |-> [total_items |-> FrameLen(frame),
                  total_instruments |-> 0,
                  validation_status |-> "error"],
     instrument_validation |-> NewInstrumentResult,
     duplicate_validation |->
         AddError(NewDuplicateResult, "REPORT_GENERATION_ERROR",
                  "Error critico durante generacion de reporte: " \o message,
                  "error"),
     metadata_validation |-> NewMetadataResult,
     classification_validation |-> NewClassificationResult,
     advanced_validation |-> NewAdvancedResult,
     export_options |-> <<>>]

\* the report of the except branch: every section invalid, the one error in
\* the duplicate section
ErrorReport(frame, message) ==
    [summary |-> [total_items |-> FrameLen(frame),
                  total_instruments |-> 0,
                  validation_status |-> "error"],
     instrument_validation |-> [NewInstrumentResult EXCEPT !.is_valid = FALSE],
     duplicate_validation |->
         AddError([NewDuplicateResult EXCEPT !.is_valid = FALSE],
                  "REPORT_GENERATION_ERROR",
                  "Error critico durante generacion de reporte: " \o message,
                  "error"),
     metadata_validation |-> [NewMetadataResult EXCEPT !.is_valid = FALSE],
     classification_validation |->
         [NewClassificationResult EXCEPT !.is_valid = FALSE],
     advanced_validation |-> [NewAdvancedResult EXCEPT !.is_valid = FALSE],
     export_options |-> <<>>]

\* ---------------------------------------------------------------- state
VARIABLES
    data,                      \* the dataset, a DataFrame with a RangeIndex
    categorization,            \* the VariableCategorization
    tool,                      \* "ensamblaje": EnsamblajeValidator; "engine": ValidationEngine
    pc,                        \* position in the orchestrator
    instrument_validation,     \* the five sections, filled as the checkers return
    duplicate_validation,
    metadata_validation,
    classification_validation,
    advanced_validation,
    exception,                 \* the exception propagating out of a step, if any
    report                     \* the ValidationReport returned

vars == <<data, categorization, tool, pc, instrument_validation,
          duplicate_validation, metadata_validation, classification_validation,
          advanced_validation, exception, report>>

\* no exception is propagating
NoException == [site |-> "none", message |-> ""]

\* no report has been returned yet
NoReport == [summary |-> [total_items |-> 0, total_instruments |-> 0,
                          validation_status |-> "pending"]]

\* ---------------------------------------------------------------- inputs
\* the rows of the datasets of Spec: two forms, item ids with repeats and
\* gaps, a critical variable with gaps
CheckerRows ==
    {[form |-> "A", year |-> "2023", id |-> p[1], key |-> p[2], dim |-> "d"] :
        p \in {<<"i1", "x">>, <<"i2", "x">>, <<NULL, "x">>, <<"i1", NULL>>}}
    \cup {[form |-> "B", year |-> "2023", id |-> i, key |-> "x", dim |-> "d"] :
        i \in {"i1", "i2"}}

\* the rows of the datasets of SpecGrouping: instrument values vary
GroupingRows ==
    {[form |-> f, year |-> y, id |-> "i1", key |-> "x", dim |-> "d"] :
        f \in {"A", "B"}, y \in {"2023", "2024", NULL}}

\* a categorization with every role filled by a column of the dataset
BaseCategorization ==
    [instrument_vars |-> <<"form">>, item_id_vars |-> <<"id">>,
     metadata_vars |-> <<"key">>, classification_vars |-> <<"dim">>,
     advanced_options |-> NONE]

\* AdvancedValidationOptions(item_count_constraints, key_variable_constraints)
AdvancedValidationOptions(item_counts, key_variables) ==
    Some([item_count_constraints |-> item_counts,
          key_variable_constraints |-> key_variables])

\* advanced options: both lists empty, one item-count constraint, one
\* key-variable constraint, and a malformed object whose first list is None
AdvancedOptionsChoices ==
    {AdvancedValidationOptions(Some(<<>>), Some(<<>>)),
     AdvancedValidationOptions(
         Some(<<[expected_count |-> 2, scope |-> "global"]>>), Some(<<>>)),
     AdvancedValidationOptions(
         Some(<<>>),
         Some(<<[variable_name |-> "key", expected_key_count |-> 1,
                 expected_values |-> <<"x">>, scope |-> "global"]>>)),
     AdvancedValidationOptions(NONE, Some(<<>>))}

\* the categorizations of Spec: the base one with one role changed to empty,
\* to a list with an absent variable ("ghost"), to a malformed list, or with
\* advanced options
CheckerCategorizations ==
    {BaseCategorization}
    \cup {[BaseCategorization EXCEPT !.instrument_vars = v] :
            v \in {<<>>, <<"form", "year">>, <<"ghost">>, <<"form", UNHASHABLE>>}}
    \cup {[BaseCategorization EXCEPT !.item_id_vars = v] :
            v \in {<<>>, <<"id", "ghost">>}}
    \cup {[BaseCategorization EXCEPT !.metadata_vars = v] :
            v \in {<<>>, <<"key", "ghost">>}}
    \cup {[BaseCategorization EXCEPT !.classification_vars = v] :
            v \in {<<>>, <<"dim", "ghost">>}}
    \cup {[BaseCategorization EXCEPT !.advanced_options = o] :
            o \in AdvancedOptionsChoices}

\* the categorizations of SpecGrouping: instrument-variable lists in several
\* orders, with an absent and with a repeated variable
GroupingCategorizations ==
    {[BaseCategorization EXCEPT !.instrument_vars = v] :
        v \in {<<>>, <<"form">>, <<"year">>, <<"form", "year">>,
               <<"year", "form">>, <<"form", "ghost", "year">>,
               <<"year", "form", "form">>, <<"ghost">>,
               <<"year", UNHASHABLE>>}}
    \cup {[BaseCategorization EXCEPT
             !.instrument_vars = <<"year", "form">>,
             !.advanced_options =
                 AdvancedValidationOptions(NONE, Some(<<>>))]}

\* the rows of the datasets of SpecAdvanced: a key variable with integral,
\* fractional and non-numeric values and gaps
AdvancedRows ==
    {[form |-> "A", year |-> "2023", id |-> "i1", key |-> k, dim |-> "d"] :
        k \in {"4", "4.0", "4.5", "x", NULL}}
    \cup {[form |-> "B", year |-> "2023", id |-> "i1", key |-> k, dim |-> "d"] :
        k \in {"4", "x"}}

\* ItemCountConstraint(expected_count, scope)
ItemCountConstraint(expected_count, scope) ==
    [expected_count |-> expected_count, scope |-> scope]

\* KeyVariableConstraint(variable_name, expected_key_count, expected_values, scope)
KeyVariableConstraint(variable_name, expected_key_count, expected_values, scope) ==
    [variable_name |-> variable_name, expected_key_count |-> expected_key_count,
     expected_values |-> expected_values, scope |-> scope]

\* lists of item-count constraints: global, one instrument, an instrument
\* that does not exist followed by a global one
ItemCountChoices ==
    {<<ItemCountConstraint(2, "global")>>,
     <<ItemCountConstraint(2, "form:A")>>,
     <<ItemCountConstraint(1, "form:Z"), ItemCountConstraint(1, "global")>>}

\* lists of key-variable constraints: cardinality only, values only, both,
\* neither, and constraints on a variable that is not a column
KeyVariableChoices ==
    {<<KeyVariableConstraint("key", 1, <<>>, "global")>>,
     <<KeyVariableConstraint("key", 0, <<"4">>, "global")>>,
     <<KeyVariableConstraint("key", 0, <<"4.0", "4.5">>, "global")>>,
     <<KeyVariableConstraint("key", 2, <<"4", "x">>, "form:A")>>,
     <<KeyVariableConstraint("key", 0, <<>>, "global")>>,
     <<KeyVariableConstraint("ghost", 1, <<"4">>, "global")>>,
     <<KeyVariableConstraint("ghost", 0, <<>>, "form:A"),
       KeyVariableConstraint("key", 1, <<>>, "global")>>}

\* the categorizations of SpecAdvanced: advanced options of one family, of
\* both, on the whole dataset as one instrument, and a malformed object
AdvancedCategorizations ==
    {[BaseCategorization EXCEPT
        !.advanced_options = AdvancedValidationOptions(Some(i), Some(<<>>))] :
            i \in ItemCountChoices}
    \cup {[BaseCategorization EXCEPT
             !.advanced_options = AdvancedValidationOptions(Some(<<>>), Some(k))] :
                 k \in KeyVariableChoices}
    \cup {[BaseCategorization EXCEPT
             !.advanced_options = AdvancedValidationOptions(
                 Some(<<ItemCountConstraint(2, "global")>>),
                 Some(<<KeyVariableConstraint("key", 2, <<"4", "x">>, "form:A")>>))]}
    \cup {[BaseCategorization EXCEPT
             !.instrument_vars = <<>>,
             !.advanced_options = AdvancedValidationOptions(
                 Some(<<ItemCountConstraint(2, "global")>>),
                 Some(<<KeyVariableConstraint("key", 0, <<"4">>, "global")>>))]}
    \cup {[BaseCategorization EXCEPT
             !.advanced_options = AdvancedValidationOptions(Some(<<>>), NONE)]}

\* the rows of the datasets of SpecSort: one instrument whose key column holds
\* numbers, words, and "NAN", which pandas reads as a string and float()
\* as NaN
SortRows ==
    {[form |-> "A", year |-> "2023", id |-> "i1", key |-> k, dim |-> "d"] :
        k \in {"1", "2", "10", "NAN", "x", "B"}}

\* the categorizations of SpecSort: the base one, and one whose advanced
\* options lack a constraint list
SortCategorizations ==
    {BaseCategorization,
     [BaseCategorization EXCEPT
        !.advanced_options = AdvancedValidationOptions(Some(<<>>), NONE)]}

\* the rows of the datasets of SpecClassification: two forms, a descriptive
\* variable with two values and gaps
ClassificationRows ==
    {[form |-> f, year |-> "2023", id |-> "i1", key |-> "x", dim |-> d] :
        f \in {"A", "B"}, d \in {"d", "e", NULL}}

\* the categorizations of SpecClassification: classification-variable lists
\* that are empty, name columns, absent variables, a column twice or an
\* unhashable entry, on instruments by form and on the whole dataset, and one
\* whose advanced options lack a constraint list
ClassificationCategorizations ==
    {[BaseCategorization EXCEPT !.classification_vars = v, !.instrument_vars = i] :
        v \in {<<>>, <<"dim">>, <<"dim", "ghost">>, <<"ghost">>, <<"dim", "dim">>,
               <<"ghost", "dim", UNHASHABLE, "ghost">>},
        i \in {<<"form">>, <<>>}}
    \cup {[BaseCategorization EXCEPT
             !.advanced_options = AdvancedValidationOptions(Some(<<>>), NONE)]}

\* the state before a run on the inputs drawn from the given sets
InitWith(rows, categorizations) ==
    /\ \E n \in 0..MaxRows : \E r \in [1..n -> rows] : data = DataFrame(r)
    /\ categorization \in categorizations
    /\ tool \in {"ensamblaje", "engine"}
    /\ pc = "start"
    /\ instrument_validation = NewInstrumentResult
    /\ duplicate_validation = NewDuplicateResult
    /\ metadata_validation = NewMetadataResult
    /\ classification_validation = NewClassificationResult
    /\ advanced_validation = NewAdvancedResult
    /\ exception = NoException
    /\ report = NoReport

\* the state before a run of the tool on the inputs drawn from the given
\* sets, or of the older engine on the base categorization
InitTool(rows, categorizations) ==
    /\ InitWith(rows, categorizations \cup {BaseCategorization})
    /\ tool = "engine" => categorization = BaseCategorization

Init == InitWith(CheckerRows, CheckerCategorizations)

InitGrouping == InitWith(GroupingRows, GroupingCategorizations)

\* --------------------------------------------------------------- actions
\* generate_comprehensive_report, line 39
RunInstruments ==
    /\ tool = "ensamblaje" /\ pc = "start"
    /\ instrument_validation' =
           ValidateInstrumentsIdentification(data, categorization)
    /\ pc' = "duplicates"
    /\ UNCHANGED <<data, categorization, tool, duplicate_validation,
                   metadata_validation, classification_validation,
                   advanced_validation, exception, report>>

\* generate_comprehensive_report, line 40
RunDuplicates ==
    /\ tool = "ensamblaje" /\ pc = "duplicates"
    /\ duplicate_validation' = ValidateDuplicates(data, categorization)
    /\ pc' = "metadata"
    /\ UNCHANGED <<data, categorization, tool, instrument_validation,
                   metadata_validation, classification_validation,
                   advanced_validation, exception, report>>

\* generate_comprehensive_report, line 41
RunMetadata ==
    /\ tool = "ensamblaje" /\ pc = "metadata"
    /\ metadata_validation' = ValidateMetadataCompleteness(data, categorization)
    /\ pc' = "classification"
    /\ UNCHANGED <<data, categorization, tool, instrument_validation,
                   duplicate_validation, classification_validation,
                   advanced_validation, exception, report>>

\* generate_comprehensive_report, line 42: the grouping of the classification
\* analyzer runs before its try, so its exception leaves the checker
RunClassification ==
    /\ tool = "ensamblaje" /\ pc = "classification"
    /\ IF GroupingRaises(data, categorization.instrument_vars)
       THEN /\ exception' = [site |-> "analyze_classification_variables",
                             message |-> UnhashableMessage]
            /\ pc' = "except"
            /\ UNCHANGED classification_validation
       ELSE /\ classification_validation' =
                   AnalyzeClassificationVariables(data, categorization)
            /\ pc' = "advanced"
            /\ UNCHANGED exception
    /\ UNCHANGED <<data, categorization, tool, instrument_validation,
                   duplicate_validation, metadata_validation,
                   advanced_validation, report>>

\* generate_comprehensive_report, line 43: the constraint lists are read
\* before the try of the advanced checker
RunAdvanced ==
    /\ tool = "ensamblaje" /\ pc = "advanced"
    /\ IF AdvancedOptionsRaise(categorization)
       THEN /\ exception' = [site |-> "validate_advanced_constraints",
                             message |-> NoneLenMessage]
            /\ pc' = "except"
            /\ UNCHANGED advanced_validation
       ELSE /\ advanced_validation' =
                   ValidateAdvancedConstraints(data, categorization)
            /\ pc' = "summary"
            /\ UNCHANGED exception
    /\ UNCHANGED <<data, categorization, tool, instrument_validation,
                   duplicate_validation, metadata_validation,
                   classification_validation, report>>

\* generate_comprehensive_report, lines 45-101: status, summary and report
BuildReport ==
    /\ tool = "ensamblaje" /\ pc = "summary"
    /\ IF GroupingRaises(data, categorization.instrument_vars)
       THEN /\ exception' = [site |-> "_get_instruments",
                             message |-> UnhashableMessage]
            /\ pc' = "except"
            /\ UNCHANGED report
       ELSE /\ report' = CompleteReport(data, categorization,
                   instrument_validation, duplicate_validation,
                   metadata_validation, classification_validation,
                   advanced_validation)
            /\ pc' = "done"
            /\ UNCHANGED exception
    /\ UNCHANGED <<data, categorization, tool, instrument_validation,
                   duplicate_validation, metadata_validation,
                   classification_validation, advanced_validation>>

\* generate_comprehensive_report, lines 103-127: the except branch
ReportFailure ==
    /\ tool = "ensamblaje" /\ pc = "except"
    /\ report' = ErrorReport(data, exception.message)
    /\ pc' = "done"
    /\ UNCHANGED <<data, categorization, tool, instrument_validation,
                   duplicate_validation, metadata_validation,
                   classification_validation, advanced_validation, exception>>

\* ValidationEngine.validate_duplicates(): the grouping made for the
\* validation parameters, before the try, lets its exception out
EngineRunDuplicates ==
    /\ tool = "engine" /\ pc = "start"
    /\ IF GroupingRaises(data, categorization.instrument_vars)
       THEN /\ exception' = [site |-> "ValidationEngine.validate_duplicates",
                             message |-> UnhashableMessage]
            /\ pc' = "raised"
            /\ UNCHANGED duplicate_validation
       ELSE /\ duplicate_validation' = EngineValidateDuplicates(data, categorization)
            /\ pc' = "returned"
            /\ UNCHANGED exception
    /\ UNCHANGED <<data, categorization, tool, instrument_validation,
                   metadata_validation, classification_validation,
                   advanced_validation, report>>

\* a variant of DataAfterMetadata in which the rows with a null critical
\* variable are dropped from the frame passed in
DataAfterMetadataInPlace(frame, cat) ==
    DataFrame(SelectSeq(frame.rows,
                        LAMBDA r : \A v \in Range(cat.metadata_vars) \cap Columns :
                                     r[v] # NULL))

\* the dataset each checker leaves behind: every checker only reads the frame
\* it is given (row.to_dict(), dropna(), value_counts(), unique() and isnull()
\* return new objects) and never assigns to it
DataAfterDuplicates(frame, cat) == frame

DataAfterMetadata(frame, cat) == frame

DataAfterClassification(frame, cat) == frame

DataAfterAdvanced(frame, cat) == frame

\* the four checkers called in an arbitrary order: pc is the set of the
\* checkers that have returned, with "except" once one of them raised
CheckDuplicates ==
    /\ "duplicates" \notin pc /\ "except" \notin pc
    /\ duplicate_validation' = ValidateDuplicates(data, categorization)
    /\ data' = DataAfterDuplicates(data, categorization)
    /\ pc' = pc \cup {"duplicates"}
    /\ UNCHANGED <<categorization, tool, instrument_validation,
                   metadata_validation, classification_validation,
                   advanced_validation, exception, report>>

CheckMetadata ==
    /\ "metadata" \notin pc /\ "except" \notin pc
    /\ metadata_validation' = ValidateMetadataCompleteness(data, categorization)
    /\ data' = DataAfterMetadata(data, categorization)
    /\ pc' = pc \cup {"metadata"}
    /\ UNCHANGED <<categorization, tool, instrument_validation,
                   duplicate_validation, classification_validation,
                   advanced_validation, exception, report>>

CheckClassification ==
    /\ "classification" \notin pc /\ "except" \notin pc
    /\ IF GroupingRaises(data, categorization.instrument_vars)
       THEN /\ exception' = [site |-> "analyze_classification_variables",
                             message |-> UnhashableMessage]
            /\ pc' = pc \cup {"except"}
            /\ UNCHANGED <<data, classification_validation>>
       ELSE /\ classification_validation' =
                   AnalyzeClassificationVariables(data, categorization)
            /\ data' = DataAfterClassification(data, categorization)
            /\ pc' = pc \cup {"classification"}
            /\ UNCHANGED exception
    /\ UNCHANGED <<categorization, tool, instrument_validation,
                   duplicate_validation, metadata_validation,
                   advanced_validation, report>>

CheckAdvanced ==
    /\ "advanced" \notin pc /\ "except" \notin pc
    /\ IF AdvancedOptionsRaise(categorization)
       THEN /\ exception' = [site |-> "validate_advanced_constraints",
                             message |-> NoneLenMessage]
            /\ pc' = pc \cup {"except"}
            /\ UNCHANGED <<data, advanced_validation>>
       ELSE /\ advanced_validation' =
                   ValidateAdvancedConstraints(data, categorization)
            /\ data' = DataAfterAdvanced(data, categorization)
            /\ pc' = pc \cup {"advanced"}
            /\ UNCHANGED exception
    /\ UNCHANGED <<categorization, tool, instrument_validation,
                   duplicate_validation, metadata_validation,
                   classification_validation, report>>

NextAnyOrder ==
    \/ CheckDuplicates
    \/ CheckMetadata
    \/ CheckClassification
    \/ CheckAdvanced

Next ==
    \/ RunInstruments
    \/ RunDuplicates
    \/ RunMetadata
    \/ RunClassification
    \/ RunAdvanced
    \/ BuildReport
    \/ ReportFailure
    \/ EngineRunDuplicates

InitAdvanced == InitTool(AdvancedRows, AdvancedCategorizations)

InitSort == InitTool(SortRows, SortCategorizations)

InitClassification == InitTool(ClassificationRows, ClassificationCategorizations)

\* the categorizations of SpecAnyOrder: the base one, ones that make a
\* checker return early, report an absent variable or raise, and one with an
\* item-count constraint
AnyOrderCategorizations ==
    {BaseCategorization,
     [BaseCategorization EXCEPT !.instrument_vars = <<>>],
     [BaseCategorization EXCEPT !.instrument_vars = <<"form", UNHASHABLE>>],
     [BaseCategorization EXCEPT !.item_id_vars = <<>>],
     [BaseCategorization EXCEPT !.metadata_vars = <<"key", "ghost">>],
     [BaseCategorization EXCEPT
        !.advanced_options = AdvancedValidationOptions(
            Some(<<ItemCountConstraint(2, "global")>>), Some(<<>>))],
     [BaseCategorization EXCEPT
        !.advanced_options = AdvancedValidationOptions(NONE, Some(<<>>))]}

\* the state before the four checkers are called in an arbitrary order
InitAnyOrder ==
    /\ \E n \in 0..MaxRows : \E r \in [1..n -> CheckerRows] : data = DataFrame(r)
    /\ categorization \in AnyOrderCategorizations
    /\ tool = "ensamblaje"
    /\ pc = {}
    /\ instrument_validation = NewInstrumentResult
    /\ duplicate_validation = NewDuplicateResult
    /\ metadata_validation = NewMetadataResult
    /\ classification_validation = NewClassificationResult
    /\ advanced_validation = NewAdvancedResult
    /\ exception = NoException
    /\ report = NoReport

Spec == Init /\ [][Next]_vars

\* the rows of the datasets of SpecDisplay: two non-temporal instrument
\* variables whose numbers of distinct values differ from dataset to dataset,
\* one of them with gaps, and a temporal one
DisplayRows ==
    {[form |-> f, year |-> "2023", id |-> "i1", key |-> "x", dim |-> d] :
        f \in {"A", "B"}, d \in {"d", "e", NULL}}
    \cup {[form |-> "A", year |-> "2024", id |-> "i1", key |-> "x", dim |-> "d"]}

\* the categorizations of SpecDisplay: one, two and three instrument
\* variables in several orders, with an absent and with a repeated variable
DisplayCategorizations ==
    {[BaseCategorization EXCEPT !.instrument_vars = v] :
        v \in {<<"year">>, <<"form", "dim">>, <<"dim", "form">>,
               <<"year", "dim", "form">>, <<"year", "ghost">>,
               <<"year", "year">>, <<"ghost", "ghost">>,
               <<"year", "form", "form">>,
               <<"form", UNHASHABLE>>}}

InitDisplay == InitTool(DisplayRows, DisplayCategorizations)

SpecDisplay == InitDisplay /\ [][Next]_vars

\* the rows of the datasets of SpecDelimiters: instrument values that hold
\* the separators '|' and ':' of the key
DelimiterRows ==
    {[form |-> f, year |-> y, id |-> "i1", key |-> "x", dim |-> "d"] :
        f \in {"A", "A|year:1"}, y \in {"2", "1|year:2"}}

\* the categorizations of SpecDelimiters: one and two instrument variables,
\* and one whose advanced options lack a constraint list
DelimiterCategorizations ==
    {[BaseCategorization EXCEPT !.instrument_vars = v] :
        v \in {<<"form">>, <<"year">>, <<"form", "year">>, <<"year", "form">>}}
    \cup {[BaseCategorization EXCEPT
             !.advanced_options = AdvancedValidationOptions(NONE, Some(<<>>))]}

InitDelimiters ==
    /\ InitWith(DelimiterRows, DelimiterCategorizations)
    /\ tool = "ensamblaje"

\* the steps of EnsamblajeValidator.generate_comprehensive_report
NextEnsamblaje ==
    \/ RunInstruments
    \/ RunDuplicates
    \/ RunMetadata
    \/ RunClassification
    \/ RunAdvanced
    \/ BuildReport
    \/ ReportFailure

SpecDelimiters == InitDelimiters /\ [][NextEnsamblaje]_vars

\* the rows of the datasets of SpecNumeric: a critical variable whose cells
\* are numbers, strings or gaps
NumericRows ==
    {[form |-> "A", year |-> "2023", id |-> "i1", key |-> k, dim |-> "d"] :
        k \in {"#1", "#2", "x", NULL}}
    \cup {[form |-> "B", year |-> "2023", id |-> "i1", key |-> "#1", dim |-> "d"]}

\* the categorizations of SpecNumeric: the critical variable alone, with an
\* absent one, none, and advanced options that lack a constraint list
NumericCategorizations ==
    {[BaseCategorization EXCEPT !.metadata_vars = v] :
        v \in {<<"key">>, <<"key", "ghost">>, <<>>}}
    \cup {[BaseCategorization EXCEPT
             !.advanced_options = AdvancedValidationOptions(NONE, Some(<<>>))]}

InitNumeric == InitTool(NumericRows, NumericCategorizations)

SpecNumeric == InitNumeric /\ [][Next]_vars

SpecGrouping == InitGrouping /\ [][Next]_vars

SpecAdvanced == InitAdvanced /\ [][Next]_vars

SpecSort == InitSort /\ [][Next]_vars

SpecClassification == InitClassification /\ [][Next]_vars

SpecAnyOrder == InitAnyOrder /\ [][NextAnyOrder]_vars

\* ------------------------------------------------------------ properties
\* the instrument checker has returned from a grouping that did not raise
Grouped ==
    /\ tool = "ensamblaje" /\ pc = "duplicates"
    /\ instrument_validation.is_valid

\* the duplicate checker of the tool has returned
DuplicatesChecked == tool = "ensamblaje" /\ pc = "metadata"

\* the orders of a list of at most three entries
OrdersOf(s) ==
    {[i \in 1..Len(s) |-> s[p[i]]] :
        p \in {q \in [1..Len(s) -> 1..Len(s)] :
                 \A a, b \in 1..Len(s) : q[a] = q[b] => a = b}}

\* the groups of a grouping as a set of (key, positions)
GroupSet(g) == {<<g[j].key, g[j].positions>> : j \in 1..Len(g)}

\* the (key, observations_count) pairs of a list of instrument details
CountSet(detail) ==
    {<<detail[j].key, detail[j].observations_count>> : j \in 1..Len(detail)}

\* rows i and h of the dataset fall in the same instrument
SameInstrument(i, h) ==
    InstrumentKey(data.rows[i], categorization.instrument_vars)
        = InstrumentKey(data.rows[h], categorization.instrument_vars)

\* C1: the grouping is a partition of the rows: the observation counts of
\* the instruments reported sum to the number of rows, every row label is
\* among the observations of exactly one instrument, no instrument lists a
\* label twice or a label that is not a row, and the frames of
\* _get_instruments hold as many rows as the dataset
C1_Partition ==
    Grouped =>
        /\ SeqSum([j \in 1..Len(instrument_validation.instruments_detail) |->
                     instrument_validation.instruments_detail[j].observations_count])
               = FrameLen(data)
        /\ instrument_validation.instrument_summary.total_observations
               = FrameLen(data)
        /\ categorization.instrument_vars # <<>> =>
             /\ \A label \in Range(data.index) :
                  Cardinality(
                      {j \in 1..Len(InstrumentsData(data, categorization.instrument_vars)) :
                         label \in Range(InstrumentsData(
                             data, categorization.instrument_vars)[j].observations)}) = 1
             /\ \A j \in 1..Len(InstrumentsData(data, categorization.instrument_vars)) :
                  /\ Range(InstrumentsData(
                         data, categorization.instrument_vars)[j].observations)
                         \subseteq Range(data.index)
                  /\ Cardinality(Range(InstrumentsData(
                         data, categorization.instrument_vars)[j].observations))
                         = instrument_validation.instruments_detail[j].observations_count
        /\ SeqSum([j \in 1..Len(GetInstruments(data, categorization.instrument_vars)) |->
                     FrameLen(GetInstruments(
                         data, categorization.instrument_vars)[j].frame)])
               = FrameLen(data)

\* a dataset of several rows was split into several instruments, one of them
\* with more than one row
C1_Witness ==
    /\ Grouped
    /\ Len(instrument_validation.instruments_detail) >= 2
    /\ \E j \in 1..Len(instrument_validation.instruments_detail) :
         instrument_validation.instruments_detail[j].observations_count >= 2

\* C2: the status of the report returned is 'error' if a section is invalid,
\* otherwise 'warning' if a section has a warning, otherwise 'success'
C2_StatusPriority ==
    (tool = "ensamblaje" /\ pc = "done") =>
        report.summary.validation_status =
            IF \/ ~report.instrument_validation.is_valid
               \/ ~report.duplicate_validation.is_valid
               \/ ~report.metadata_validation.is_valid
               \/ ~report.classification_validation.is_valid
               \/ ~report.advanced_validation.is_valid
            THEN "error"
            ELSE IF \/ report.instrument_validation.warnings # <<>>
                    \/ report.duplicate_validation.warnings # <<>>
                    \/ report.metadata_validation.warnings # <<>>
                    \/ report.classification_validation.warnings # <<>>
                    \/ report.advanced_validation.warnings # <<>>
            THEN "warning"
            ELSE "success"

\* a complete report with an invalid section and a warning in another one:
\* the error wins
C2_Witness ==
    /\ tool = "ensamblaje" /\ pc = "done" /\ exception = NoException
    /\ ~report.duplicate_validation.is_valid
    /\ report.classification_validation.warnings # <<>>
    /\ report.summary.validation_status = "error"

\* C3 (as claimed): every non-null value of an item-id variable occurring
\* more than once in an instrument has exactly one entry in duplicate_items,
\* with the value and as many row indices as occurrences
C3_OneEntryPerDuplicate ==
    (DuplicatesChecked /\ duplicate_validation.errors = <<>>
         /\ categorization.item_id_vars # <<>>) =>
        \A j \in 1..Len(GetInstruments(data, categorization.instrument_vars)) :
          \A var \in Range(categorization.item_id_vars) \cap Columns :
            \A v \in NonNullValues(
                       GetInstruments(data, categorization.instrument_vars)[j].frame,
                       var) :
              ValueCount(GetInstruments(data, categorization.instrument_vars)[j].frame,
                         var, v) > 1
              => Cardinality(
                   {d \in 1..Len(duplicate_validation.duplicate_items) :
                      /\ duplicate_validation.duplicate_items[d].item_id = Str(v)
                      /\ Len(duplicate_validation.duplicate_items[d].row_indices)
                           = ValueCount(
                                 GetInstruments(
                                     data, categorization.instrument_vars)[j].frame,
                                 var, v)}) = 1

\* C4 (as claimed): the row indices of every DuplicateItem are the labels, in
\* the dataset, of the rows of its instrument that hold its value
C4_GlobalRowIndices ==
    (tool = "engine" /\ pc = "returned"
         /\ Range(categorization.item_id_vars) \cap Columns = {"id"}) =>
        \A d \in 1..Len(duplicate_validation.duplicate_items) :
          Range(duplicate_validation.duplicate_items[d].row_indices)
            = {data.index[i] : i \in
                 {h \in 1..FrameLen(data) :
                    /\ Str(data.rows[h]["id"])
                         = duplicate_validation.duplicate_items[d].item_id
                    /\ \A c \in 1..Len(duplicate_validation.duplicate_items[d]
                                           .instrument_combination) :
                         Str(data.rows[h][
                             duplicate_validation.duplicate_items[d]
                                 .instrument_combination[c][1]])
                           = duplicate_validation.duplicate_items[d]
                                 .instrument_combination[c][2]}}

\* C5 (as claimed): without item-id variables the duplicate checker returns
\* an invalid result with exactly one error and no analysis
C5_NoItemIdVarsIsError ==
    (DuplicatesChecked /\ categorization.item_id_vars = <<>>) =>
        /\ ~duplicate_validation.is_valid
        /\ Len(duplicate_validation.errors) = 1
        /\ duplicate_validation.statistics = {}

\* C6 (as claimed): with an item-id variable declared and present, the
\* result is invalid exactly when two rows of one instrument share a
\* non-null value of an item-id variable or a row has a null one
C6_ValidityAsClaimed ==
    (DuplicatesChecked
         /\ Range(categorization.item_id_vars) \cap Columns # {}) =>
        (~duplicate_validation.is_valid <=>
            \E var \in Range(categorization.item_id_vars) \cap Columns :
              \/ \E i \in 1..FrameLen(data) : data.rows[i][var] = NULL
              \/ \E i, h \in 1..FrameLen(data) :
                   /\ i < h
                   /\ data.rows[i][var] # NULL
                   /\ data.rows[i][var] = data.rows[h][var]
                   /\ SameInstrument(i, h))

\* C6 (amended): when item-id variables are declared, all of them are
\* columns and the grouping does not raise, the result is invalid exactly
\* when two rows of one instrument share a non-null value of an item-id
\* variable or a row has a null one
C6_Validity ==
    (DuplicatesChecked
         /\ categorization.item_id_vars # <<>>
         /\ Range(categorization.item_id_vars) \subseteq Columns
         /\ ~GroupingRaises(data, categorization.instrument_vars)) =>
        (duplicate_validation.is_valid <=>
            \A var \in Range(categorization.item_id_vars) :
              /\ \A i \in 1..FrameLen(data) : data.rows[i][var] # NULL
              /\ \A i, h \in 1..FrameLen(data) :
                   (i < h /\ data.rows[i][var] = data.rows[h][var])
                       => ~SameInstrument(i, h))

\* a value repeated inside one instrument, no null: the result is invalid
C6_Witness ==
    /\ DuplicatesChecked
    /\ categorization.item_id_vars = <<"id">>
    /\ ~duplicate_validation.is_valid
    /\ duplicate_validation.errors = <<>>
    /\ duplicate_validation.statistics.total_duplicated_items = 2
    /\ duplicate_validation.statistics.total_missing_values = 0
    /\ Len(GetInstruments(data, categorization.instrument_vars)) = 2

\* C7 (as claimed): a duplicate or metadata result that is invalid lists at
\* least one error
C7_InvalidHasError ==
    (tool = "ensamblaje" /\ pc = "classification") =>
        /\ ~duplicate_validation.is_valid => duplicate_validation.errors # <<>>
        /\ ~metadata_validation.is_valid => metadata_validation.errors # <<>>

\* C8: when a step of generate_comprehensive_report raised, the report
\* returned has every section, status 'error', the five sections invalid and
\* one error in all
C8_FailurePolicy ==
    (tool = "ensamblaje" /\ pc = "done" /\ exception # NoException) =>
        /\ DOMAIN report = {"summary", "instrument_validation",
                            "duplicate_validation", "metadata_validation",
                            "classification_validation", "advanced_validation",
                            "export_options"}
        /\ report.summary.validation_status = "error"
        /\ ~report.instrument_validation.is_valid
        /\ ~report.duplicate_validation.is_valid
        /\ ~report.metadata_validation.is_valid
        /\ ~report.classification_validation.is_valid
        /\ ~report.advanced_validation.is_valid
        /\ Len(report.instrument_validation.errors)
             + Len(report.duplicate_validation.errors)
             + Len(report.metadata_validation.errors)
             + Len(report.classification_validation.errors)
             + Len(report.advanced_validation.errors) = 1
        /\ report.duplicate_validation.errors[1].message
             = "Error critico durante generacion de reporte: " \o exception.message

\* the report returned after the advanced checker raised
C8_Witness ==
    /\ tool = "ensamblaje" /\ pc = "done"
    /\ exception.site = "validate_advanced_constraints"
    /\ report.summary.validation_status = "error"

\* C9 (as claimed): no checker lets an exception out to the aggregator
C9_NoExceptionLeavesAChecker ==
    tool = "ensamblaje" => exception = NoException

\* C10: for every order of the instrument-variable list the grouping has the
\* same keys with the same rows, and the instruments reported are the ones
\* any order gives
C10_OrderIndependence ==
    Grouped =>
        \A t \in OrdersOf(categorization.instrument_vars) :
          /\ GroupSet(GroupPositions(data, t, FrameLen(data)))
               = GroupSet(GroupPositions(data, categorization.instrument_vars,
                                         FrameLen(data)))
          /\ CountSet(ValidateInstrumentsIdentification(
                          data, [categorization EXCEPT !.instrument_vars = t])
                          .instruments_detail)
               = CountSet(instrument_validation.instruments_detail)

\* a list of two instrument variables, not in name order, split the dataset
\* into several instruments
C10_Witness ==
    /\ Grouped
    /\ categorization.instrument_vars = <<"year", "form">>
    /\ Len(instrument_validation.instruments_detail) >= 3

\* the advanced checker of the tool has returned
AdvancedChecked == tool = "ensamblaje" /\ pc = "summary"

\* the advanced options are present with both constraint lists empty
EmptyAdvancedOptions ==
    categorization.advanced_options
        = AdvancedValidationOptions(Some(<<>>), Some(<<>>))

\* C11: without advanced options, or with both constraint lists empty, the
\* advanced result is valid and its error and passed lists are all empty,
\* whatever the dataset
C11_OptIn ==
    (AdvancedChecked
         /\ (categorization.advanced_options = NONE \/ EmptyAdvancedOptions)) =>
        /\ advanced_validation.is_valid
        /\ advanced_validation.errors = <<>>
        /\ advanced_validation.item_count_errors = <<>>
        /\ advanced_validation.key_variable_errors = <<>>
        /\ advanced_validation.item_count_passed = <<>>
        /\ advanced_validation.key_variable_passed = <<>>

\* options present with both lists empty, on a dataset with duplicated and
\* missing item ids in two instruments
C11_Witness ==
    /\ AdvancedChecked
    /\ EmptyAdvancedOptions
    /\ FrameLen(data) = 3
    /\ ~duplicate_validation.is_valid
    /\ advanced_validation.statistics.instruments_analyzed = 2

\* the keys of the instruments of the dataset
GroupKeys ==
    IF categorization.instrument_vars = <<>> THEN {SINGLE_INSTRUMENT_KEY}
    ELSE {InstrumentKey(data.rows[i], categorization.instrument_vars) :
            i \in 1..FrameLen(data)}

\* the positions of the rows of the instrument with key k
RowsOf(k) ==
    IF categorization.instrument_vars = <<>> THEN 1..FrameLen(data)
    ELSE {i \in 1..FrameLen(data) :
            InstrumentKey(data.rows[i], categorization.instrument_vars) = k}

\* the keys of the instruments a scope applies to
Applies(scope) ==
    IF scope = "global" THEN GroupKeys ELSE GroupKeys \cap {scope}

\* the advanced checker has returned from constraint lists that are present
ConstraintsChecked ==
    /\ AdvancedChecked
    /\ categorization.advanced_options # NONE
    /\ ~AdvancedOptionsRaise(categorization)

\* the item-count and key-variable constraints of the categorization
ItemCounts == Get(Get(categorization.advanced_options).item_count_constraints)

KeyVariables == Get(Get(categorization.advanced_options).key_variable_constraints)

\* the indices of the item-count error entries of instrument k for an
\* expected count
ItemErrorsOf(k, expected) ==
    {e \in 1..Len(advanced_validation.item_count_errors) :
        /\ advanced_validation.item_count_errors[e].context.instrument = k
        /\ advanced_validation.item_count_errors[e].context.expected_count = expected}

\* the indices of the item-count passed entries of instrument k for an
\* expected count
ItemPassedOf(k, expected) ==
    {e \in 1..Len(advanced_validation.item_count_passed) :
        /\ advanced_validation.item_count_passed[e].instrument = k
        /\ advanced_validation.item_count_passed[e].expected_count = expected}

\* the number of item-count constraints with an expected count that apply to
\* instrument k
ItemConstraintsOn(k, expected) ==
    Cardinality({c \in 1..Len(ItemCounts) :
                   /\ ItemCounts[c].expected_count = expected
                   /\ k \in Applies(ItemCounts[c].scope)})

\* every item-count constraint leaves, on each instrument it applies to, an
\* error entry with the expected count, the actual count and difference =
\* actual - expected when the instrument has another number of rows, a passed
\* entry and no error when it has the expected number
ItemCountEntriesAsClaimed ==
    ConstraintsChecked =>
        \A c \in 1..Len(ItemCounts) : \A k \in Applies(ItemCounts[c].scope) :
          IF Cardinality(RowsOf(k)) # ItemCounts[c].expected_count
          THEN /\ Cardinality(ItemErrorsOf(k, ItemCounts[c].expected_count))
                    = ItemConstraintsOn(k, ItemCounts[c].expected_count)
               /\ ItemPassedOf(k, ItemCounts[c].expected_count) = {}
               /\ \A e \in ItemErrorsOf(k, ItemCounts[c].expected_count) :
                    advanced_validation.item_count_errors[e].context
                      = [instrument |-> k,
                         expected_count |-> ItemCounts[c].expected_count,
                         actual_count |-> Cardinality(RowsOf(k)),
                         difference |-> Cardinality(RowsOf(k))
                                            - ItemCounts[c].expected_count]
          ELSE /\ Cardinality(ItemPassedOf(k, ItemCounts[c].expected_count))
                    = ItemConstraintsOn(k, ItemCounts[c].expected_count)
               /\ ItemErrorsOf(k, ItemCounts[c].expected_count) = {}
               /\ \A e \in ItemPassedOf(k, ItemCounts[c].expected_count) :
                    advanced_validation.item_count_passed[e].actual_count
                      = Cardinality(RowsOf(k))

\* the total number of item-count entries is the number of pairs of a
\* constraint and an instrument it applies to
ItemCountEntryTotal ==
    ConstraintsChecked =>
        Len(advanced_validation.item_count_errors)
            + Len(advanced_validation.item_count_passed)
          = SeqSum([c \in 1..Len(ItemCounts) |->
                      Cardinality(Applies(ItemCounts[c].scope))])

\* C12: for every item-count constraint and every instrument it applies to,
\* exactly one entry is recorded: an error entry with expected_count,
\* actual_count and difference = actual_count - expected_count when the row
\* count of the instrument differs from expected_count, a passed entry and no
\* error when it is equal
C12_ItemCount == ItemCountEntriesAsClaimed /\ ItemCountEntryTotal

\* a constraint expecting 2 items on every instrument: one instrument has 2
\* and passes, the other has 1 and fails with difference -1
C12_Witness ==
    /\ ConstraintsChecked
    /\ ItemCounts = <<ItemCountConstraint(2, "global")>>
    /\ Len(advanced_validation.item_count_passed) = 1
    /\ Len(advanced_validation.item_count_errors) = 1
    /\ advanced_validation.item_count_errors[1].context.difference = -1

\* the distinct non-null values of a variable in the instrument with key k
DistinctValues(k, var) == {data.rows[i][var] : i \in RowsOf(k)} \ {NULL}

\* two value strings denote the same value: the same integral number, or the
\* same string
Equivalent(a, e) ==
    IF /\ a \in DOMAIN FloatOf /\ e \in DOMAIN FloatOf
       /\ FloatOf[a] % 10 = 0 /\ FloatOf[e] % 10 = 0
    THEN FloatOf[a] = FloatOf[e]
    ELSE a = e

\* the actual values of instrument k that match no expected value of c
UnexpectedOf(c, k) ==
    {a \in DistinctValues(k, c.variable_name) :
        \A e \in Range(c.expected_values) : ~Equivalent(a, e)}

\* the expected values of c that no actual value of instrument k matches
MissingOf(c, k) ==
    {e \in Range(c.expected_values) :
        \A a \in DistinctValues(k, c.variable_name) : ~Equivalent(a, e)}

\* the sub-checks of a key-variable constraint that are enabled
CardinalityEnabled(c) == c.expected_key_count > 0

ValuesEnabled(c) == c.expected_values # <<>>

\* an enabled sub-check of c fails on instrument k
CardinalityFails(c, k) ==
    /\ CardinalityEnabled(c)
    /\ Cardinality(DistinctValues(k, c.variable_name)) # c.expected_key_count

ValuesFail(c, k) ==
    /\ ValuesEnabled(c)
    /\ (UnexpectedOf(c, k) # {} \/ MissingOf(c, k) # {})

\* the indices of the key-variable error entries of instrument k for a variable
KeyErrorsOf(k, var) ==
    {e \in 1..Len(advanced_validation.key_variable_errors) :
        /\ "instrument" \in DOMAIN advanced_validation.key_variable_errors[e].context
        /\ advanced_validation.key_variable_errors[e].context.instrument = k
        /\ advanced_validation.key_variable_errors[e].context.variable = var}

\* the indices of the key-variable passed entries of instrument k for a variable
KeyPassedOf(k, var) ==
    {e \in 1..Len(advanced_validation.key_variable_passed) :
        /\ advanced_validation.key_variable_passed[e].instrument = k
        /\ advanced_validation.key_variable_passed[e].variable = var}

\* the key-variable constraints whose variable is a column
PresentKeyConstraints ==
    {c \in 1..Len(KeyVariables) : KeyVariables[c].variable_name \in Columns}

\* the constraint lists of the model hold at most one constraint per variable,
\* which makes the entries of (instrument, variable) those of one constraint
OneConstraintPerVariable ==
    \A c, d \in 1..Len(KeyVariables) :
        KeyVariables[c].variable_name = KeyVariables[d].variable_name => c = d

\* C13: for every key-variable constraint on a present variable and every
\* instrument it applies to there is at most one error entry and at most one
\* passed entry; the passed entry exists exactly when some sub-check is
\* enabled and every enabled sub-check passes; one consolidated error entry
\* exists exactly when some enabled sub-check fails; never both an error and
\* a passed entry
C13_KeyOutcome ==
    ConstraintsChecked =>
        /\ OneConstraintPerVariable
        /\ \A c \in PresentKeyConstraints :
             /\ \A k \in Applies(KeyVariables[c].scope) :
                  /\ Cardinality(KeyErrorsOf(k, KeyVariables[c].variable_name))
                       = IF CardinalityFails(KeyVariables[c], k)
                              \/ ValuesFail(KeyVariables[c], k)
                         THEN 1 ELSE 0
                  /\ Cardinality(KeyPassedOf(k, KeyVariables[c].variable_name))
                       = IF /\ (CardinalityEnabled(KeyVariables[c])
                                  \/ ValuesEnabled(KeyVariables[c]))
                            /\ ~CardinalityFails(KeyVariables[c], k)
                            /\ ~ValuesFail(KeyVariables[c], k)
                         THEN 1 ELSE 0
                  /\ \/ KeyErrorsOf(k, KeyVariables[c].variable_name) = {}
                     \/ KeyPassedOf(k, KeyVariables[c].variable_name) = {}
             /\ \A k \in GroupKeys \ Applies(KeyVariables[c].scope) :
                  /\ KeyErrorsOf(k, KeyVariables[c].variable_name) = {}
                  /\ KeyPassedOf(k, KeyVariables[c].variable_name) = {}

\* a constraint with both sub-checks enabled on an instrument where both
\* fail: a single error entry carries the count and the unexpected value
C13_Witness ==
    /\ ConstraintsChecked
    /\ KeyVariables = <<KeyVariableConstraint("key", 2, <<"4", "x">>, "form:A")>>
    /\ CardinalityFails(KeyVariables[1], "form:A")
    /\ UnexpectedOf(KeyVariables[1], "form:A") # {}
    /\ Len(advanced_validation.key_variable_errors) = 1
    /\ advanced_validation.key_variable_errors[1].context.actual_count = 1
    /\ advanced_validation.key_variable_errors[1].context.unexpected_values # {}

\* a value string that parses as a number without fractional part
Integral(v) == v \in DOMAIN FloatOf /\ FloatOf[v] % 10 = 0

\* C14: in the value-set check an expected and an actual value are equal when
\* both parse as numbers with the same integral value, and are compared as
\* literal strings otherwise: an instrument whose values all match and whose
\* expected values are all matched has no unexpected or missing value in any
\* entry, any other instrument has an error entry that flags them, the
\* non-integral ones literally
C14_NumericNormalization ==
    ConstraintsChecked =>
        \A c \in PresentKeyConstraints : \A k \in Applies(KeyVariables[c].scope) :
          ValuesEnabled(KeyVariables[c]) =>
            IF ValuesFail(KeyVariables[c], k)
            THEN \E e \in KeyErrorsOf(k, KeyVariables[c].variable_name) :
                   /\ (advanced_validation.key_variable_errors[e].context.unexpected_values = {})
                        <=> (UnexpectedOf(KeyVariables[c], k) = {})
                   /\ (advanced_validation.key_variable_errors[e].context.missing_values = {})
                        <=> (MissingOf(KeyVariables[c], k) = {})
                   /\ \A a \in UnexpectedOf(KeyVariables[c], k) :
                        ~Integral(a) =>
                          a \in advanced_validation.key_variable_errors[e].context.unexpected_values
                   /\ \A a \in MissingOf(KeyVariables[c], k) :
                        ~Integral(a) =>
                          a \in advanced_validation.key_variable_errors[e].context.missing_values
            ELSE /\ \A e \in KeyErrorsOf(k, KeyVariables[c].variable_name) :
                      /\ advanced_validation.key_variable_errors[e].context.unexpected_values = {}
                      /\ advanced_validation.key_variable_errors[e].context.missing_values = {}
                 /\ ~CardinalityFails(KeyVariables[c], k) =>
                      /\ KeyErrorsOf(k, KeyVariables[c].variable_name) = {}
                      /\ KeyPassedOf(k, KeyVariables[c].variable_name) # {}

\* expected_values ["4"] against an instrument whose only value is "4.0": the
\* instrument passes
C14_Witness ==
    /\ ConstraintsChecked
    /\ KeyVariables = <<KeyVariableConstraint("key", 0, <<"4">>, "global")>>
    /\ DistinctValues("form:A", "key") = {"4.0"}
    /\ KeyPassedOf("form:A", "key") # {}
    /\ KeyErrorsOf("form:A", "key") = {}

\* the indices of the standalone error entries of a variable: their context
\* names the variable and nothing else
StandaloneErrorsOf(var) ==
    {e \in 1..Len(advanced_validation.key_variable_errors) :
        /\ DOMAIN advanced_validation.key_variable_errors[e].context = {"variable"}
        /\ advanced_validation.key_variable_errors[e].context.variable = var}

\* the key-variable constraints whose variable is not a column
AbsentKeyConstraints ==
    {c \in 1..Len(KeyVariables) : KeyVariables[c].variable_name \notin Columns}

\* C15: a key-variable constraint on a variable that is not a column leaves
\* exactly one error entry, whatever its scope, its expected count and values
\* and the number of instruments, and no passed entry; the other constraints
\* of the list are still evaluated on every instrument they apply to
C15_AbsentKeyVariable ==
    ConstraintsChecked =>
        /\ OneConstraintPerVariable
        /\ \A c \in AbsentKeyConstraints :
             /\ Cardinality(StandaloneErrorsOf(KeyVariables[c].variable_name)) = 1
             /\ \A e \in 1..Len(advanced_validation.key_variable_errors) :
                  advanced_validation.key_variable_errors[e].context.variable
                        = KeyVariables[c].variable_name
                    => e \in StandaloneErrorsOf(KeyVariables[c].variable_name)
             /\ \A e \in 1..Len(advanced_validation.key_variable_passed) :
                  advanced_validation.key_variable_passed[e].variable
                    # KeyVariables[c].variable_name
        /\ AbsentKeyConstraints # {} =>
             \A d \in PresentKeyConstraints : \A k \in Applies(KeyVariables[d].scope) :
               (CardinalityEnabled(KeyVariables[d]) \/ ValuesEnabled(KeyVariables[d]))
                 => Cardinality(KeyErrorsOf(k, KeyVariables[d].variable_name))
                      + Cardinality(KeyPassedOf(k, KeyVariables[d].variable_name)) = 1
        /\ Len(advanced_validation.key_variable_errors)
             = Cardinality(AbsentKeyConstraints)
                 + SeqSum([d \in 1..Len(KeyVariables) |->
                             IF d \in PresentKeyConstraints
                             THEN Cardinality({k \in Applies(KeyVariables[d].scope) :
                                                 KeyErrorsOf(k, KeyVariables[d].variable_name) # {}})
                             ELSE 0])

\* a constraint on the absent 'ghost' followed by one on 'key', on a dataset
\* of two instruments: one standalone error, and 'key' is checked on both
C15_Witness ==
    /\ ConstraintsChecked
    /\ Len(KeyVariables) = 2
    /\ KeyVariables[1].variable_name = "ghost"
    /\ Cardinality(GroupKeys) = 2
    /\ Cardinality(StandaloneErrorsOf("ghost")) = 1
    /\ Len(advanced_validation.key_variable_passed) = 2

\* the messages of a list of entries, and of the issues of a code, in order
MessagesOf(entries) == [i \in 1..Len(entries) |-> entries[i].message]

IssueMessages(issues, code) ==
    MessagesOf(SelectSeq(issues, LAMBDA issue : issue.code = code))

\* C16: with advanced options present the result is invalid exactly when an
\* item-count or a key-variable error entry was produced, and the errors list
\* holds exactly one error issue per entry of item_count_errors (first) and
\* of key_variable_errors (then), with the message of the entry
C16_AdvancedValidity ==
    ConstraintsChecked =>
        /\ ~advanced_validation.is_valid
             <=> \/ advanced_validation.item_count_errors # <<>>
                 \/ advanced_validation.key_variable_errors # <<>>
        /\ Len(advanced_validation.errors)
             = Len(advanced_validation.item_count_errors)
                 + Len(advanced_validation.key_variable_errors)
        /\ MessagesOf(advanced_validation.errors)
             = MessagesOf(advanced_validation.item_count_errors)
                 \o MessagesOf(advanced_validation.key_variable_errors)
        /\ IssueMessages(advanced_validation.errors, "ITEM_COUNT_ERROR")
             = MessagesOf(advanced_validation.item_count_errors)
        /\ IssueMessages(advanced_validation.errors, "KEY_VARIABLE_ERROR")
             = MessagesOf(advanced_validation.key_variable_errors)
        /\ \A i \in 1..Len(advanced_validation.errors) :
             advanced_validation.errors[i].severity = "error"

\* an item-count constraint failing on two instruments and a key-variable
\* constraint failing on one: three entries, three issues, an invalid result
C16_Witness ==
    /\ ConstraintsChecked
    /\ Len(advanced_validation.item_count_errors) = 2
    /\ Len(advanced_validation.key_variable_errors) = 1
    /\ Len(advanced_validation.errors) = 3
    /\ ~advanced_validation.is_valid

\* the metadata checker of the tool has returned
MetadataChecked == tool = "ensamblaje" /\ pc = "classification"

\* the declared metadata variables that are columns, and those that are not
PresentMetadataVars == Range(categorization.metadata_vars) \cap Columns

AbsentMetadataVars == Range(categorization.metadata_vars) \ Columns

\* the number of null cells of a variable in the instrument with key k
NullsOf(k, var) == Cardinality({i \in RowsOf(k) : data.rows[i][var] = NULL})

\* C17 (as claimed): the metadata result is invalid when a declared metadata
\* variable has a null in some instrument; a declared variable that is not a
\* column produces an error issue and an invalid result, and the statistics of
\* the other declared variables are still reported for every instrument
C17_AbsentMetadataVar ==
    (/\ MetadataChecked
     /\ categorization.metadata_vars # <<>>
     /\ ~GroupingRaises(data, categorization.instrument_vars)) =>
        /\ (\E var \in PresentMetadataVars : \E k \in GroupKeys : NullsOf(k, var) > 0)
             => ~metadata_validation.is_valid
        /\ AbsentMetadataVars # {} =>
             /\ ~metadata_validation.is_valid
             /\ \E e \in 1..Len(metadata_validation.errors) :
                  metadata_validation.errors[e].code = "METADATA_VAR_NOT_FOUND"
        /\ \A j \in 1..Len(metadata_validation.statistics.instruments_analysis) :
             DOMAIN metadata_validation.statistics.instruments_analysis[j].variables_analysis
               = PresentMetadataVars

\* the metadata checker has returned from an analysis by instrument
MetadataAnalysed ==
    /\ MetadataChecked
    /\ categorization.metadata_vars # <<>>
    /\ ~GroupingRaises(data, categorization.instrument_vars)

\* t tenths of a percent is the nearest tenth to 100 * part / total
NearestTenth(t, part, total) ==
    /\ 2 * (t * total - 1000 * part) <= total
    /\ 2 * (1000 * part - t * total) <= total

CountsAsReported(k, var, analysis) ==
    /\ analysis.total_observations = Cardinality(RowsOf(k))
    /\ analysis.missing_count = NullsOf(k, var)
    /\ IF Cardinality(RowsOf(k)) = 0 THEN analysis.missing_percentage = 0
       ELSE NearestTenth(analysis.missing_percentage, NullsOf(k, var),
                         Cardinality(RowsOf(k)))
    /\ "completeness" \notin DOMAIN analysis

C19_NoMetadataVars ==
    (MetadataChecked /\ categorization.metadata_vars = <<>>) =>
        /\ Len(metadata_validation.warnings) = 1
        /\ metadata_validation.warnings[1].code = "NO_METADATA_VARS"
        /\ metadata_validation.errors = <<>>
        /\ metadata_validation.is_valid
        /\ metadata_validation.statistics = {}
        /\ metadata_validation.missing_values = {}
        /\ metadata_validation.completeness_stats = {}

\* no metadata variable declared on a dataset of two instruments with a null
\* key, which a declared 'key' would have made invalid
C19_Witness ==
    /\ MetadataChecked
    /\ categorization.metadata_vars = <<>>
    /\ Cardinality(GroupKeys) = 2
    /\ \E i \in 1..FrameLen(data) : data.rows[i]["key"] = NULL
    /\ Len(metadata_validation.warnings) = 1
    /\ metadata_validation.is_valid

\* the values of a distribution, in order
DistributionValues(distribution) ==
    [i \in 1..Len(distribution) |-> distribution[i].value]

\* a list holds the values that parse as numbers first, in ascending numeric
\* order, and then the others in ascending string order
NumbersThenStrings(values) ==
    \A i, j \in 1..Len(values) :
      i < j =>
        /\ values[i] \notin ParsesAsFloat => values[j] \notin ParsesAsFloat
        /\ (values[i] \in ParsesAsFloat /\ values[j] \in ParsesAsFloat)
             => ~FloatLess(FloatKey(values[j]), FloatKey(values[i]))
        /\ (values[i] \notin ParsesAsFloat /\ values[j] \notin ParsesAsFloat)
             => LexRank(values[i]) <= LexRank(values[j])

\* C20 (as claimed): the values of every distribution, which smart_sort_values
\* ordered, are a permutation of the distinct non-null values of the variable
\* in the instrument, with the values that parse as numbers first in
\* ascending numeric order and the others after them in ascending string
\* order
C20_SmartSort ==
    MetadataAnalysed =>
        \A j \in 1..Len(metadata_validation.statistics.instruments_analysis) :
          \A var \in PresentMetadataVars :
            /\ Range(DistributionValues(
                   metadata_validation.statistics.instruments_analysis[j].variables_analysis[var].distribution))
                 = DistinctValues(metadata_validation.statistics.instruments_analysis[j].key, var)
            /\ Len(metadata_validation.statistics.instruments_analysis[j].variables_analysis[var].distribution)
                 = Cardinality(DistinctValues(
                       metadata_validation.statistics.instruments_analysis[j].key, var))
            /\ NumbersThenStrings(DistributionValues(
                   metadata_validation.statistics.instruments_analysis[j].variables_analysis[var].distribution))

\* the classification analyzer of the tool has returned
ClassificationChecked == tool = "ensamblaje" /\ pc = "advanced"

\* the codes of a list of issues, in order
CodesOf(issues) == [i \in 1..Len(issues) |-> issues[i].code]

\* the number of null cells of a variable in the dataset
NullCells(var) == Cardinality({i \in 1..FrameLen(data) : data.rows[i][var] = NULL})

\* C21: when no exception occurs inside the classification analyzer its
\* result is valid and has no error, however many cells of the
\* classification variables are empty; each declared variable that is not a
\* column gives a CLASSIFICATION_VAR_NOT_FOUND warning and nothing else, and
\* an empty list of classification variables gives the single warning
\* NO_CLASSIFICATION_VARS
C21_NeverPenalises ==
    (ClassificationChecked
         /\ UNHASHABLE \notin Range(categorization.classification_vars)) =>
        /\ classification_validation.is_valid
        /\ classification_validation.errors = <<>>
        /\ CodesOf(classification_validation.warnings)
             = IF categorization.classification_vars = <<>>
               THEN <<"NO_CLASSIFICATION_VARS">>
               ELSE [i \in 1..Cardinality(
                         {p \in 1..Len(categorization.classification_vars) :
                            categorization.classification_vars[p] \notin Columns}) |->
                       "CLASSIFICATION_VAR_NOT_FOUND"]

\* a dataset of three rows whose classification variable is empty in all of
\* them, declared together with an absent variable: valid, one warning
C21_Witness ==
    /\ ClassificationChecked
    /\ categorization.classification_vars = <<"dim", "ghost">>
    /\ FrameLen(data) = 3
    /\ NullCells("dim") = 3
    /\ classification_validation.is_valid
    /\ Len(classification_validation.warnings) = 1
    /\ classification_validation.empty_cells # <<>>

\* the report of a run that raised nothing has been returned
Reported == tool = "ensamblaje" /\ pc = "done" /\ exception = NoException

\* the keys of a per-instrument analysis, in order
KeysOf(analysis) == [j \in 1..Len(analysis) |-> analysis[j].key]

\* C22: without instrument variables every checker that groups the dataset,
\* and the summary, see exactly one instrument, with the key
\* 'default_instrument' and every row of the dataset, also when the dataset
\* has no rows
C22_SingleInstrument ==
    (Reported /\ categorization.instrument_vars = <<>>) =>
        /\ instrument_validation.instrument_summary
             = [total_instruments |-> 1, total_observations |-> FrameLen(data)]
        /\ KeysOf(instrument_validation.instruments_detail)
             = <<SINGLE_INSTRUMENT_KEY>>
        /\ instrument_validation.instruments_detail[1].observations_count
             = FrameLen(data)
        /\ categorization.item_id_vars # <<>> =>
             /\ duplicate_validation.instruments_analyzed = 1
             /\ KeysOf(duplicate_validation.statistics.instruments_analysis)
                  = <<SINGLE_INSTRUMENT_KEY>>
             /\ duplicate_validation.statistics.instruments_analysis[1].total_observations
                  = FrameLen(data)
        /\ categorization.metadata_vars # <<>> =>
             /\ KeysOf(metadata_validation.statistics.instruments_analysis)
                  = <<SINGLE_INSTRUMENT_KEY>>
             /\ metadata_validation.statistics.instruments_analysis[1].total_observations
                  = FrameLen(data)
        /\ (/\ Range(categorization.classification_vars) \cap Columns # {}
            /\ classification_validation.errors = <<>>) =>
             KeysOf(classification_validation.unique_counts_per_instrument)
               = <<SINGLE_INSTRUMENT_KEY>>
        /\ categorization.advanced_options # NONE =>
             /\ advanced_validation.statistics.instruments_analyzed = 1
             /\ \A e \in 1..Len(advanced_validation.item_count_errors) :
                  /\ advanced_validation.item_count_errors[e].context.instrument
                       = SINGLE_INSTRUMENT_KEY
                  /\ advanced_validation.item_count_errors[e].context.actual_count
                       = FrameLen(data)
             /\ \A e \in 1..Len(advanced_validation.item_count_passed) :
                  /\ advanced_validation.item_count_passed[e].instrument
                       = SINGLE_INSTRUMENT_KEY
                  /\ advanced_validation.item_count_passed[e].actual_count
                       = FrameLen(data)
             /\ Len(advanced_validation.item_count_errors)
                  + Len(advanced_validation.item_count_passed)
                  = Len(ItemCounts)
        /\ report.summary.total_instruments = 1
        /\ report.summary.total_items = FrameLen(data)

\* a dataset without rows and no instrument variable, with an item-count
\* constraint on every instrument: one instrument of 0 rows in the report
C22_Witness ==
    /\ Reported
    /\ categorization.instrument_vars = <<>>
    /\ categorization.advanced_options # NONE
    /\ FrameLen(data) = 0
    /\ report.summary.total_instruments = 1
    /\ Len(advanced_validation.item_count_errors) = 1
    /\ Len(metadata_validation.statistics.instruments_analysis) = 1

\* the (key, total_observations) pairs of a per-instrument analysis
AnalysisCountSet(analysis) ==
    {<<analysis[j].key, analysis[j].total_observations>> : j \in 1..Len(analysis)}

\* the (instrument, actual_count) pairs of the item-count entries
ItemCountSet ==
    {<<advanced_validation.item_count_errors[e].context.instrument,
       advanced_validation.item_count_errors[e].context.actual_count>> :
        e \in 1..Len(advanced_validation.item_count_errors)}
    \cup {<<advanced_validation.item_count_passed[e].instrument,
            advanced_validation.item_count_passed[e].actual_count>> :
            e \in 1..Len(advanced_validation.item_count_passed)}

\* C23 (as claimed): in every report summary.total_instruments equals
\* instrument_summary.total_instruments, duplicate_validation's
\* instruments_analyzed and the number of instruments of the duplicate and
\* metadata analyses, for every categorization
C23_SameGroupingAsClaimed ==
    (Reported /\ instrument_validation.is_valid) =>
        /\ report.summary.total_instruments
             = instrument_validation.instrument_summary.total_instruments
        /\ report.summary.total_instruments
             = duplicate_validation.instruments_analyzed
        /\ categorization.item_id_vars # <<>> =>
             report.summary.total_instruments
               = Len(duplicate_validation.statistics.instruments_analysis)
        /\ categorization.metadata_vars # <<>> =>
             report.summary.total_instruments
               = Len(metadata_validation.statistics.instruments_analysis)

\* C23: in a report whose instrument section has no error, the summary and
\* every checker that carried out its analysis show the same grouping: the
\* same keys in the same order and the same row count per key in the
\* instrument, duplicate and metadata sections, the same keys in the
\* classification section, the same rows per key in the item-count entries,
\* and the same number of instruments in summary.total_instruments,
\* instrument_summary.total_instruments, instruments_analyzed of the
\* duplicate and advanced sections
C23_SameGrouping ==
    (Reported /\ instrument_validation.is_valid) =>
        /\ instrument_validation.instrument_summary.total_instruments
             = Len(instrument_validation.instruments_detail)
        /\ report.summary.total_instruments
             = Len(instrument_validation.instruments_detail)
        /\ categorization.item_id_vars # <<>> =>
             /\ duplicate_validation.instruments_analyzed
                  = report.summary.total_instruments
             /\ KeysOf(duplicate_validation.statistics.instruments_analysis)
                  = KeysOf(instrument_validation.instruments_detail)
             /\ AnalysisCountSet(duplicate_validation.statistics.instruments_analysis)
                  = CountSet(instrument_validation.instruments_detail)
        /\ categorization.metadata_vars # <<>> =>
             /\ KeysOf(metadata_validation.statistics.instruments_analysis)
                  = KeysOf(instrument_validation.instruments_detail)
             /\ AnalysisCountSet(metadata_validation.statistics.instruments_analysis)
                  = CountSet(instrument_validation.instruments_detail)
        /\ (/\ Range(categorization.classification_vars) \cap Columns # {}
            /\ classification_validation.errors = <<>>) =>
             KeysOf(classification_validation.unique_counts_per_instrument)
               = KeysOf(instrument_validation.instruments_detail)
        /\ categorization.advanced_options # NONE =>
             /\ advanced_validation.statistics.instruments_analyzed
                  = report.summary.total_instruments
             /\ ItemCountSet \subseteq CountSet(instrument_validation.instruments_detail)
             /\ (\E c \in 1..Len(ItemCounts) : ItemCounts[c].scope = "global")
                  => ItemCountSet = CountSet(instrument_validation.instruments_detail)

\* a report on two instruments of two rows and one row, with an item-count
\* constraint on every instrument
C23_Witness ==
    /\ Reported
    /\ instrument_validation.is_valid
    /\ categorization.advanced_options # NONE
    /\ CountSet(instrument_validation.instruments_detail)
         = {<<"form:A", 2>>, <<"form:B", 1>>}
    /\ ItemCountSet = {<<"form:A", 2>>, <<"form:B", 1>>}
    /\ report.summary.total_instruments = 2
    /\ duplicate_validation.instruments_analyzed = 2

\* every checker that has returned holds the result the fixed order gives on
\* the inputs
ResultsOfFixedOrder ==
    /\ "duplicates" \in pc =>
         duplicate_validation = ValidateDuplicates(data, categorization)
    /\ "metadata" \in pc =>
         metadata_validation = ValidateMetadataCompleteness(data, categorization)
    /\ "classification" \in pc =>
         classification_validation = AnalyzeClassificationVariables(data, categorization)
    /\ "advanced" \in pc =>
         advanced_validation = ValidateAdvancedConstraints(data, categorization)
    /\ "duplicates" \notin pc => duplicate_validation = NewDuplicateResult
    /\ "metadata" \notin pc => metadata_validation = NewMetadataResult
    /\ "classification" \notin pc =>
         classification_validation = NewClassificationResult
    /\ "advanced" \notin pc => advanced_validation = NewAdvancedResult

\* a step of a checker leaves the dataset and the categorization as they were
InputsUntouched == data' = data /\ categorization' = categorization

VariablesOf(e) == {e.instrument_variables[i][1] : i \in 1..Len(e.instrument_variables)}

\* the value the instrument e of the detail carries for the variable var
ValueOf(e, var) ==
    LET i == CHOOSE h \in 1..Len(e.instrument_variables) :
                 e.instrument_variables[h][1] = var
    IN e.instrument_variables[i][2]

\* the orders of the list of variables names in which the number of distinct
\* non-null values in the dataset never decreases
AscendingOrders(names) ==
    {s \in OrdersOf(names) :
        \A i, h \in 1..Len(s) :
            i < h => NUnique(data, s[i]) <= NUnique(data, s[h])}

\* the values of e for the variables plain joined by " - ", then those for
\* the variables temporal in parentheses
Rendered(e, plain, temporal) ==
    Join([i \in 1..Len(plain) |-> ValueOf(e, plain[i])], " - ")
        \o (IF temporal = <<>> THEN ""
            ELSE " (" \o Join([i \in 1..Len(temporal) |-> ValueOf(e, temporal[i])],
                              ", ") \o ")")

\* the display name of e lists the variables names: the non-temporal ones by
\* ascending number of distinct values, the temporal ones last in parentheses
RenderedByHierarchy(e, names) ==
    \E plain \in AscendingOrders(SelectSeqBy(names, VariablesOf(e) \ TemporalNames)) :
        \E temporal \in AscendingOrders(
                            SelectSeqBy(names, VariablesOf(e) \cap TemporalNames)) :
            e.display_name = Rendered(e, plain, temporal)

\* the display name of e is the raw value of its one variable
RenderedRaw(e) ==
    \A var \in VariablesOf(e) : e.display_name = ValueOf(e, var)

\* rows with equal keys are in one instrument of the detail: the keys of the
\* detail are distinct, and each instrument counts the rows of its key
MembershipByKey ==
    /\ \A j, h \in 1..Len(instrument_validation.instruments_detail) :
         instrument_validation.instruments_detail[j].key
             = instrument_validation.instruments_detail[h].key => j = h
    /\ \A j \in 1..Len(instrument_validation.instruments_detail) :
         instrument_validation.instruments_detail[j].observations_count
             = Cardinality({i \in 1..FrameLen(data) :
                   InstrumentKey(data.rows[i], categorization.instrument_vars)
                       = instrument_validation.instruments_detail[j].key})
    /\ \A i \in 1..FrameLen(data) :
         \E j \in 1..Len(instrument_validation.instruments_detail) :
             InstrumentKey(data.rows[i], categorization.instrument_vars)
                 = instrument_validation.instruments_detail[j].key

\* C25: with more than one instrument variable configured, the
\* display name of every group lists the values of the non-temporal variables
\* in ascending order of their number of distinct values, then the values of
\* the temporal variables in parentheses; with one variable configured it is
\* that variable's raw value; and rows with equal keys are in one group
C25_DisplayName ==
    (Grouped /\ categorization.instrument_vars # <<>>) =>
        /\ \A j \in 1..Len(instrument_validation.instruments_detail) :
             /\ Len(categorization.instrument_vars) > 1 =>
                  RenderedByHierarchy(
                      instrument_validation.instruments_detail[j],
                      Dedup(categorization.instrument_vars))
             /\ Len(categorization.instrument_vars) = 1 =>
                  RenderedRaw(instrument_validation.instruments_detail[j])
        /\ MembershipByKey

\* what the code does for C25: when more than one distinct instrument
\* variable is a column of the dataset, the display name of every group lists
\* their values once per occurrence in the configured list, the non-temporal
\* ones in ascending order of their number of distinct non-null values, then
\* the temporal ones in parentheses; when exactly one is a column it is that
\* variable's raw value, temporal or not; when none is, it is the fixed
\* label; and rows with equal keys are in one group
DisplayNameAsBuilt ==
    (Grouped /\ categorization.instrument_vars # <<>>) =>
        /\ \A j \in 1..Len(instrument_validation.instruments_detail) :
             /\ VariablesOf(instrument_validation.instruments_detail[j])
                    = Range(categorization.instrument_vars) \cap Columns
             /\ Cardinality(VariablesOf(
                    instrument_validation.instruments_detail[j])) > 1 =>
                  RenderedByHierarchy(
                      instrument_validation.instruments_detail[j],
                      categorization.instrument_vars)
             /\ Cardinality(VariablesOf(
                    instrument_validation.instruments_detail[j])) = 1 =>
                  RenderedRaw(instrument_validation.instruments_detail[j])
             /\ VariablesOf(instrument_validation.instruments_detail[j]) = {} =>
                  instrument_validation.instruments_detail[j].display_name
                      = "Instrumento sin identificar"
        /\ MembershipByKey

\* three instrument variables are configured temporal first, the dataset has
\* more forms than dimensions, and a group is named dimension, form, (year)
DisplayNameOrdered ==
    /\ Grouped
    /\ categorization.instrument_vars = <<"year", "dim", "form">>
    /\ NUnique(data, "form") = 2 /\ NUnique(data, "dim") = 1
    /\ NUnique(data, "year") = 1
    /\ \E j \in 1..Len(instrument_validation.instruments_detail) :
         instrument_validation.instruments_detail[j].display_name
             = "d - B (2023)"
\* the scope names an instrument and no instrument of the dataset has that key
ScopeWithoutGroup(scope) == scope # "global" /\ scope \notin GroupKeys

\* the instruments (keys) the item-count entries, errors and passed, are about
ItemEntryInstruments ==
    {advanced_validation.item_count_errors[e].context.instrument :
        e \in 1..Len(advanced_validation.item_count_errors)}
    \cup {advanced_validation.item_count_passed[e].instrument :
            e \in 1..Len(advanced_validation.item_count_passed)}

\* the instruments (keys) the key-variable entries on var are about
KeyEntryInstruments(var) ==
    {k \in GroupKeys \cup {KeyVariables[c].scope : c \in 1..Len(KeyVariables)} :
        KeyErrorsOf(k, var) \cup KeyPassedOf(k, var) # {}}

\* every item-count constraint is evaluated once on each instrument of its
\* scope, and no entry is about an instrument outside every scope
ItemScopes ==
    /\ \A k \in GroupKeys :
         \A x \in {ItemCounts[c].expected_count : c \in 1..Len(ItemCounts)} :
             Cardinality(ItemErrorsOf(k, x)) + Cardinality(ItemPassedOf(k, x))
                 = ItemConstraintsOn(k, x)
    /\ ItemEntryInstruments
           = UNION {Applies(ItemCounts[c].scope) : c \in 1..Len(ItemCounts)}

\* every key-variable constraint on a column with a sub-check enabled is
\* evaluated once on each instrument of its scope, and on no other instrument
KeyScopes ==
    \A c \in PresentKeyConstraints :
        /\ KeyEntryInstruments(KeyVariables[c].variable_name)
               \subseteq Applies(KeyVariables[c].scope)
        /\ (CardinalityEnabled(KeyVariables[c]) \/ ValuesEnabled(KeyVariables[c])) =>
             \A k \in Applies(KeyVariables[c].scope) :
                 Cardinality(KeyErrorsOf(k, KeyVariables[c].variable_name))
                     + Cardinality(KeyPassedOf(k, KeyVariables[c].variable_name)) = 1

\* the key-variable constraint c has left no entry of any kind
NoKeyEntryOf(c) ==
    /\ KeyEntryInstruments(KeyVariables[c].variable_name) = {}
    /\ StandaloneErrorsOf(KeyVariables[c].variable_name) = {}

\* when every constraint names an instrument that does not exist, the four
\* lists are empty and the result is valid
NothingInScope ==
    (/\ \A c \in 1..Len(ItemCounts) : ScopeWithoutGroup(ItemCounts[c].scope)
     /\ \A c \in PresentKeyConstraints : ScopeWithoutGroup(KeyVariables[c].scope)
     /\ AbsentKeyConstraints = {}) =>
        /\ advanced_validation.item_count_errors = <<>>
        /\ advanced_validation.item_count_passed = <<>>
        /\ advanced_validation.key_variable_errors = <<>>
        /\ advanced_validation.key_variable_passed = <<>>
        /\ advanced_validation.is_valid

\* C26 as claimed: a constraint with scope 'global' is evaluated once against
\* every group, a constraint with another scope against exactly the group
\* whose key is the scope, and a constraint, item-count or key-variable, whose
\* scope is the key of no group leaves neither an error nor a passed entry
C26_ScopeAsClaimed ==
    ConstraintsChecked =>
        /\ OneConstraintPerVariable
        /\ ItemScopes
        /\ KeyScopes
        /\ NothingInScope
        /\ \A c \in 1..Len(KeyVariables) :
             ScopeWithoutGroup(KeyVariables[c].scope) => NoKeyEntryOf(c)

\* C26: a constraint with scope 'global' is evaluated once against every
\* group, a constraint with another scope against exactly the group whose key
\* is the scope; an item-count constraint, or a key-variable constraint on a
\* variable that is a column, whose scope is the key of no group leaves
\* neither an error nor a passed entry, and when all constraints are such the
\* result is valid; a key-variable constraint on a variable that is not a
\* column leaves its one error whatever its scope
C26_Scope ==
    ConstraintsChecked =>
        /\ OneConstraintPerVariable
        /\ ItemScopes
        /\ KeyScopes
        /\ NothingInScope
        /\ \A c \in PresentKeyConstraints :
             ScopeWithoutGroup(KeyVariables[c].scope) => NoKeyEntryOf(c)
        /\ \A c \in AbsentKeyConstraints :
             Cardinality(StandaloneErrorsOf(KeyVariables[c].variable_name)) = 1

\* a key-variable constraint scoped to form:A is checked on a dataset that
\* has rows of form B only, and the result is valid with no entry
C26_Witness ==
    /\ ConstraintsChecked
    /\ KeyVariables = <<KeyVariableConstraint("key", 2, <<"4", "x">>, "form:A")>>
    /\ ItemCounts = <<>>
    /\ GroupKeys = {"form:B"}
    /\ advanced_validation.is_valid
    /\ advanced_validation.key_variable_errors = <<>>
    /\ advanced_validation.key_variable_passed = <<>>
\* the rows of instrument k whose non-null value of var is also the value of
\* another row of instrument k
RepeatsWithin(k, var) ==
    {i \in RowsOf(k) :
        /\ data.rows[i][var] # NULL
        /\ \E h \in RowsOf(k) : h # i /\ data.rows[h][var] = data.rows[i][var]}

\* the item-id variables that are columns, as listed
ItemIdVars == SelectSeqBy(categorization.item_id_vars, Columns)

\* the occurrences of values repeated inside their instrument, summed over
\* the instruments and the item-id variables
RepeatsOfAllGroups ==
    SumOver([k \in GroupKeys |->
               SeqSum([i \in 1..Len(ItemIdVars) |->
                         Cardinality(RepeatsWithin(k, ItemIdVars[i]))])],
            GroupKeys)

\* the value strings that repeat inside some instrument for some item-id
\* variable
RepeatedIds ==
    {Str(data.rows[i][var]) :
        <<k, var, i>> \in {t \in GroupKeys \X Range(ItemIdVars) \X (1..FrameLen(data)) :
                             t[3] \in RepeatsWithin(t[1], t[2])}}

\* the duplicate check of the tool has analysed the instruments
DuplicatesAnalysed ==
    /\ DuplicatesChecked
    /\ categorization.item_id_vars # <<>>
    /\ ~GroupingRaises(data, categorization.instrument_vars)

\* ValidationEngine.validate_duplicates has returned a result of its loop
EngineAnalysed ==
    /\ tool = "engine" /\ pc = "returned"
    /\ categorization.item_id_vars # <<>>
    /\ \A e \in 1..Len(duplicate_validation.errors) :
         duplicate_validation.errors[e].code # "VALIDATION_ERROR"

\* C27: duplicates are counted inside one instrument only: the
\* total_duplicated_items of the duplicate check is the sum over instruments
\* and item-id variables of the occurrences of values that repeat inside that
\* instrument, the repeated values listed for an instrument are the ones that
\* repeat inside it, and the legacy engine lists a DuplicateItem only for a
\* value that repeats inside one instrument; a value that occurs in several
\* instruments at most once each is counted and listed nowhere
C27_AnchorItems ==
    /\ DuplicatesAnalysed =>
         /\ duplicate_validation.statistics.total_duplicated_items
                = RepeatsOfAllGroups
         /\ \A j \in 1..Len(duplicate_validation.statistics.instruments_analysis) :
              \A var \in Range(ItemIdVars) :
                {d.value : d \in duplicate_validation.statistics
                                   .instruments_analysis[j]
                                   .variables_analysis[var].repeated_details}
                  = {Str(data.rows[i][var]) :
                       i \in RepeatsWithin(
                                 duplicate_validation.statistics
                                     .instruments_analysis[j].key, var)}
    /\ EngineAnalysed =>
         {duplicate_validation.duplicate_items[d].item_id :
             d \in 1..Len(duplicate_validation.duplicate_items)} = RepeatedIds

\* three rows hold the same item id, two in form A and one in form B: the two
\* of form A are counted, the anchor in form B is not
C27_Witness ==
    /\ DuplicatesAnalysed
    /\ categorization.item_id_vars = <<"id">>
    /\ GroupKeys = {"form:A", "form:B"}
    /\ FrameLen(data) = 3
    /\ \A i \in 1..3 : data.rows[i]["id"] = "i1"
    /\ duplicate_validation.statistics.total_duplicated_items = 2
\* the instrument variables that are columns of the dataset
PresentInstrumentVars == Range(categorization.instrument_vars) \cap Columns

\* rows i and h hold identical values for every instrument variable present
SameValues(i, h) ==
    \A var \in PresentInstrumentVars : data.rows[i][var] = data.rows[h][var]

\* the distinct combinations of values of the instrument variables present
ValueCombinations ==
    {[var \in PresentInstrumentVars |-> data.rows[i][var]] : i \in 1..FrameLen(data)}

\* C28: two rows are in the same group if and only if they hold identical
\* values for every configured instrument variable present in the dataset,
\* whatever characters the values contain, and the number of groups, of the
\* instrument checker and of the summary, is the number of distinct value
\* combinations
C28_GroupingSoundness ==
    (Reported /\ instrument_validation.is_valid
         /\ categorization.instrument_vars # <<>>) =>
        /\ \A i, h \in 1..FrameLen(data) : SameInstrument(i, h) <=> SameValues(i, h)
        /\ instrument_validation.instrument_summary.total_instruments
               = Cardinality(ValueCombinations)
        /\ report.summary.total_instruments = Cardinality(ValueCombinations)
        /\ \A j \in 1..Len(instrument_validation.instruments_detail) :
             \A i, h \in RowsOf(instrument_validation.instruments_detail[j].key) :
                 SameValues(i, h)
\* the rows of instrument k whose non-null value of var renders as the string s
RowsRendering(k, var, s) ==
    {i \in RowsOf(k) : data.rows[i][var] # NULL /\ Str(data.rows[i][var]) = s}

\* the counts of the entries of a distribution are those of the rows of
\* instrument k that render as the value of the entry, none of them 0, and
\* they sum to the non-null cells
DistributionCounts(k, var, analysis) ==
    /\ \A d \in 1..Len(analysis.distribution) :
         /\ analysis.distribution[d].count
                = Cardinality(RowsRendering(k, var, analysis.distribution[d].value))
         /\ analysis.distribution[d].count # 0
    /\ SeqSum([d \in 1..Len(analysis.distribution) |->
                 analysis.distribution[d].count])
           = analysis.total_observations - analysis.missing_count

\* C29: for every instrument and every present metadata variable, the count
\* of each distribution entry is the number of rows of the instrument whose
\* non-null value renders as the entry's value string, for string and for
\* numeric cells alike, so the counts sum to total_observations minus
\* missing_count and no entry has count 0
C29_DistributionCounts ==
    MetadataAnalysed =>
        \A j \in 1..Len(metadata_validation.statistics.instruments_analysis) :
          \A var \in PresentMetadataVars :
            DistributionCounts(
                metadata_validation.statistics.instruments_analysis[j].key, var,
                metadata_validation.statistics.instruments_analysis[j].variables_analysis[var])
\* the number of distinct expected values of a constraint once normalized
DistinctExpected(c) ==
    Cardinality({{x \in Range(c.expected_values) : Equivalent(x, e)} :
                    e \in Range(c.expected_values)})

\* C30: whenever the value-set check of a key-variable constraint passes for
\* an instrument and expected_key_count is the number of distinct normalized
\* expected values, the cardinality check passes too: the instrument gets a
\* passed entry and no error, also when the column holds several raw values
\* that normalize to the same string
C30_SubChecksAgree ==
    ConstraintsChecked =>
        \A c \in PresentKeyConstraints : \A k \in Applies(KeyVariables[c].scope) :
            (/\ ValuesEnabled(KeyVariables[c])
             /\ ~ValuesFail(KeyVariables[c], k)
             /\ KeyVariables[c].expected_key_count = DistinctExpected(KeyVariables[c])) =>
                /\ KeyErrorsOf(k, KeyVariables[c].variable_name) = {}
                /\ Cardinality(KeyPassedOf(k, KeyVariables[c].variable_name)) = 1

====
